---------------------------- MODULE Spec2Model ----------------------------
(***************************************************************************)
(* Model of the Mojo step-through instrumentation of                       *)
(* src/src/step_through_mojo.cpp (with the helpers of src/src/utils.cpp    *)
(* it relies on): the hook variants and their trampolines, PatchModule,    *)
(* the event callbacks and the stepping sequences.                         *)
(*                                                                         *)
(* Debuggee memory is byte-addressed and per process.  64-bit quantities   *)
(* that the code serialises are kept as 8-byte little-endian sequences.    *)
(***************************************************************************)
EXTENDS Integers, Sequences, FiniteSets, TLC

VARIABLES
    g_modules,          \* std::vector<std::string> g_modules
    g_event_callbacks,  \* TRUE iff g_event_callbacks != nullptr (registered)
    g_hook_instances,   \* std::vector<HookInstance> g_hook_instances
    mem,                \* debuggee memory: [process -> [address -> byte]]
    alloc,              \* scratch pages handed out by .dvalloc, per process
    cur,                \* the engine's current process / thread (engine ids)
    status,             \* the engine's execution status: "break", "go" or "step"
    frames,             \* stack of ChangeEngineState activations in progress
    cpu,                \* one target thread running the patched function
    hostlog,            \* host calls made by the most recent handler
    binary,             \* entry code of the target function in the build
    nfaults,            \* host irregularities so far
    site,               \* what the engine reports for its current thread:
                        \* call stack (innermost first) and source file
    g_commands,         \* std::vector<std::string> g_commands (break_commands)
    g_break_event_handler, \* TRUE iff g_break_event_handler != nullptr
    client_callbacks    \* TRUE iff the client holds the break event handler

vars == << g_modules, g_event_callbacks, g_hook_instances, mem, alloc, cur,
           status, frames, cpu, hostlog, binary, nfaults, site,
           g_commands, g_break_event_handler, client_callbacks >>

\* The state of the break-commands extension.
breakvars == << g_commands, g_break_event_handler, client_callbacks >>

---------------------------------------------------------------------------
(* Bounds of the model.                                                    *)

\* Longest g_modules the enable command may build.
MaxModules == 2
\* Host irregularities in one behaviour: failed or short host calls, and
\* stops reported for another thread than the one being stepped.
MaxFaults == 1

---------------------------------------------------------------------------
(* Generic helpers.                                                        *)

Byte == 0..255

Min(a, b) == IF a < b THEN a ELSE b

\* v bound to a name within F: the value of a local of the source that is
\* computed once and then read.
Let(v, F(_)) == CHOOSE r \in { F(w) : w \in {v} } : TRUE

\* s.ends_with(suffix) on sequences
EndsWith(s, suffix) ==
    /\ Len(suffix) <= Len(s)
    /\ SubSeq(s, Len(s) - Len(suffix) + 1, Len(s)) = suffix

RECURSIVE ShiftR8(_, _)
\* a >> (8 * i)
ShiftR8(a, i) == IF i = 0 THEN a ELSE ShiftR8(a \div 256, i - 1)

\* The eight bytes (v >> (i * 8)) & 0xFF, i = 0..7.
LE8(v) == [i \in 1..8 |-> ShiftR8(v, i - 1) % 256]

Zero8 == [i \in 1..8 |-> 0]

RECURSIVE AddCarry(_, _, _, _)
\* a + b modulo 2^64 on 8-byte little-endian sequences
AddCarry(a, b, i, c) ==
    IF i > 8 THEN << >>
    ELSE LET s == a[i] + b[i] + c
         IN  << s % 256 >> \o AddCarry(a, b, i + 1, s \div 256)

Add64(a, b) == AddCarry(a, b, 1, 0)

\* The four bytes widened with zeros, whatever their sign.
SignExtend32_Unsigned(b4) == b4 \o << 0, 0, 0, 0 >>

\* (ULONG64)(int64)(int32) of four little-endian bytes
SignExtend32(b4) ==
    LET fill == IF b4[4] >= 128 THEN 255 ELSE 0
    IN  b4 \o << fill, fill, fill, fill >>

RECURSIVE FromLE(_)
\* The value of a little-endian byte sequence, or -1 when it does not fit
\* the model's address range (such an address is never mapped).
FromLE(b) ==
    IF b = << >> THEN 0
    ELSE LET hi == FromLE(Tail(b))
         IN  IF hi < 0 \/ hi >= 8388608 THEN -1 ELSE hi * 256 + Head(b)

---------------------------------------------------------------------------
(* The debuggee as the host presents it.                                   *)

\* Engine process ids and engine thread ids.
Procs == {0, 1}
Threads == {0, 1}

\* GetCurrentProcessSystemId / GetCurrentThreadSystemId of an engine id.
ProcessSystemId(e) == 4 * (e + 1)
ThreadSystemId(e, t) == 100 * (e + 1) + 4 * t

\* Module names are sequences of tokens; ".dll" is the last token of a name
\* that ends with it.
DotDll == ".dll"
ExtTokens == {".dll", ".DLL"}

\* Where GetOffsetByName finds
\* <module>!mojo::InterfaceEndpointClient::HandleValidatedMessage.
TargetAddressOf(stem) ==
    IF stem = << "chrome" >> THEN 262144
    ELSE IF stem = << "content" >> THEN 327680
    ELSE 393216

\* The page .dvalloc hands out.
DvallocPageSize == 4096
ScratchAddrs == {65536, 131072}

\* Bytes of a function's entry that the host maps when the module loads.
EntryLen == 20
\* Bytes of an entry code that differ from the code of a known build.
MaxFlips == 2

\* m is one process's memory, al the scratch pages allocated in it.
IsMapped(m, al, a, n) ==
    /\ a >= 0
    /\ \A x \in a..(a + n - 1) :
          \/ x \in DOMAIN m
          \/ \E base \in al : base <= x /\ x < base + DvallocPageSize

PeekIn(m, a) == IF a \in DOMAIN m THEN m[a] ELSE 0

PeekBytes(m, a, n) == [i \in 1..n |-> PeekIn(m, a + i - 1)]

PokeBytes(m, a, bytes) ==
    [x \in DOMAIN m \cup (a..(a + Len(bytes) - 1)) |->
        IF x >= a /\ x < a + Len(bytes) THEN bytes[x - a + 1] ELSE m[x]]

\* A transfer the host cuts short moves this many of n bytes.
ShortCount(n) == n \div 2

\* IDebugDataSpaces::ReadVirtual: [ok |-> SUCCEEDED(hr), n |-> bytes_read,
\* bytes]. outcome is the host's: "ok", "fail" or "short".
ReadVirtual(m, al, a, n, outcome) ==
    IF outcome = "fail" \/ ~IsMapped(m, al, a, n)
    THEN [ok |-> FALSE, n |-> 0, bytes |-> [i \in 1..n |-> 0]]
    ELSE IF outcome = "short"
    THEN [ok |-> TRUE, n |-> ShortCount(n),
          bytes |-> [i \in 1..n |->
                        IF i <= ShortCount(n) THEN PeekIn(m, a + i - 1) ELSE 0]]
    ELSE [ok |-> TRUE, n |-> n, bytes |-> PeekBytes(m, a, n)]

\* IDebugDataSpaces::WriteVirtual: [ok, n |-> bytes_written, mem].
WriteVirtual(m, al, a, bytes, outcome) ==
    IF outcome = "fail" \/ ~IsMapped(m, al, a, Len(bytes))
    THEN [ok |-> FALSE, n |-> 0, mem |-> m]
    ELSE IF outcome = "short"
    THEN [ok |-> TRUE, n |-> ShortCount(Len(bytes)),
          mem |-> PokeBytes(m, a, SubSeq(bytes, 1, ShortCount(Len(bytes))))]
    ELSE [ok |-> TRUE, n |-> Len(bytes), mem |-> PokeBytes(m, a, bytes)]

\* The host's faults of one handler invocation are pairs <<call site, kind>>.
FaultSites == {"pid", "sym", "sigA", "sigB", "orig", "alloc", "tramp", "patch"}
Faults ==
    (FaultSites \X {"fail"}) \cup ({"sigA", "sigB", "orig", "tramp", "patch"} \X {"short"})
        \cup { << "alloc", "garbled" >> }

OutcomeAt(F, call) ==
    IF << call, "fail" >> \in F THEN "fail"
    ELSE IF << call, "short" >> \in F THEN "short"
    ELSE IF << call, "garbled" >> \in F THEN "garbled"
    ELSE "ok"

\* One record of hostlog.
LogEntry(op, a, req, n, ok) ==
    [op |-> op, a |-> a, req |-> req, n |-> n, ok |-> ok]

---------------------------------------------------------------------------
(* .dvalloc and the parsing of its output (AllocateHookMemory).            *)

\* The backtick that separates the two halves of a printed address, as a
\* character that is no hexadecimal digit (digits are 0..15).
Tick == 16

RECURSIVE HexDigits(_, _)
\* v as n hexadecimal digits, most significant first
HexDigits(v, n) ==
    IF n = 0 THEN << >> ELSE HexDigits(v \div 16, n - 1) \o << v % 16 >>

RECURSIVE HexValue(_, _)
\* std::stoull(str, nullptr, 16) of a digit sequence, from the accumulator
HexValue(digits, acc) ==
    IF digits = << >> THEN acc
    ELSE HexValue(Tail(digits), acc * 16 + Head(digits))

\* What the debugger prints for ".dvalloc <size>":
\* the allocated size and the address, both in hexadecimal; the empty
\* string when the command fails.
DvallocOutput(base) ==
    [allocated |-> TRUE,
     bytes_str |-> HexDigits(DvallocPageSize, 4),
     addr_str  |-> HexDigits(0, 8) \o << Tick >> \o HexDigits(base, 8)]

EmptyOutput == [allocated |-> FALSE, bytes_str |-> << >>, addr_str |-> << >>]

\* The text cut off after "starting at ": no character of the address.
GarbledOutput(base) == [DvallocOutput(base) EXCEPT !.addr_str = << >>]

\* std::stoull(str, nullptr, 16) throws std::invalid_argument when str does
\* not begin with a digit.
StoullThrows(str) == str = << >> \/ Head(str) \notin 0..15

RECURSIVE EraseFirst(_, _)
\* addr_str.erase(addr_str.find(c), 1)
EraseFirst(s, c) ==
    IF s = << >> THEN << >>
    ELSE IF Head(s) = c THEN Tail(s)
    ELSE << Head(s) >> \o EraseFirst(Tail(s), c)

\* HookDefinition::AllocateHookMemory on the command's output:
\* [ok |-> SUCCEEDED, inst |-> the hook instance as it leaves it,
\*  threw |-> an exception of std::stoull leaves the function].
AllocateHookMemory(hook_instance, output) ==
    IF ~output.allocated
    THEN [ok |-> FALSE, threw |-> FALSE, inst |-> hook_instance]
    ELSE IF StoullThrows(output.bytes_str)
    THEN [ok |-> FALSE, threw |-> TRUE, inst |-> hook_instance]
    ELSE IF StoullThrows(EraseFirst(output.addr_str, Tick))
    THEN [ok |-> FALSE, threw |-> TRUE,
          inst |-> [hook_instance EXCEPT
                      !.hook_allocated_memory_size = HexValue(output.bytes_str, 0)]]
    ELSE [ok   |-> TRUE, threw |-> FALSE,
          inst |-> [hook_instance EXCEPT
                      !.hook_allocated_memory_size = HexValue(output.bytes_str, 0),
                      !.hook_address = HexValue(EraseFirst(output.addr_str, Tick), 0)]]

\* The host side of ".dvalloc": it hands out the lowest free page of the
\* process; it fails when told to or when the process has no page left.
FreePages(al) == ScratchAddrs \ al

LowestFree(al) == CHOOSE pg \in FreePages(al) : \A q \in FreePages(al) : pg <= q

DvallocSucceeds(al, H) == OutcomeAt(H.F, "alloc") = "ok" /\ FreePages(al) # {}

DvallocRun(al, H) ==
    IF DvallocSucceeds(al, H)
    THEN [output |-> DvallocOutput(LowestFree(al)),
          alloc |-> al \cup {LowestFree(al)}]
    ELSE IF OutcomeAt(H.F, "alloc") = "garbled" /\ FreePages(al) # {}
    THEN [output |-> GarbledOutput(LowestFree(al)),
          alloc |-> al \cup {LowestFree(al)}]
    ELSE [output |-> EmptyOutput, alloc |-> al]

---------------------------------------------------------------------------
(* The hook variants.                                                      *)

\* HookReleaseNoConfigChanges::original_code_
original_code_ ==
    << 65, 87, 65, 86, 65, 84, 86, 87, 85, 83, 72, 129, 236, 240, 1, 0, 0 >>

\* The first variant's trampoline testing bit 28 (and eax, 10000000h).
hook_code_A_Bit28 ==
    << 80, 81, 82, 83, 72, 137, 208, 72, 133, 192, 116, 26,
       72, 139, 64, 24, 72, 133, 192, 116, 17,
       139, 64, 16, 37, 0, 0, 0, 16, 116, 7,
       204, 144, 144, 144, 144, 144, 144,
       91, 90, 89, 88,
       65, 87, 65, 86, 65, 84, 86, 87, 85, 83, 72, 129, 236, 240, 1, 0, 0,
       72, 184, 0, 0, 0, 0, 0, 0, 0, 0, 255, 224 >>

\* HookReleaseNoConfigChanges::hook_code_
hook_code_A ==
    << 80, 81, 82, 83, 72, 137, 208, 72, 133, 192, 116, 26, 72, 139, 64, 24,
       72, 133, 192, 116, 17, 139, 64, 16, 37, 0, 0, 0, 32, 116, 7, 204,
       144, 144, 144, 144, 144, 144, 91, 90, 89, 88,
       65, 87, 65, 86, 65, 84, 86, 87, 85, 83, 72, 129, 236, 240, 1, 0, 0,
       72, 184, 0, 0, 0, 0, 0, 0, 0, 0, 255, 224 >>

\* The second variant's trampoline without its "xor rax, rsp".
hook_code_B_NoXor ==
    << 80, 81, 82, 83, 72, 137, 208, 72, 133, 192, 116, 26, 72, 139, 64, 24,
       72, 133, 192, 116, 17, 139, 64, 16, 37, 0, 0, 0, 32, 116, 7, 204,
       144, 144, 144, 144, 144, 144, 91, 90, 89, 88,
       144, 144, 144, 144, 144, 144, 144,
       72, 184, 0, 0, 0, 0, 0, 0, 0, 0, 72, 139, 0, 144, 144, 144,
       73, 187, 0, 0, 0, 0, 0, 0, 0, 0, 65, 255, 227 >>

\* HookReleaseWithConfigNoOptimize::hook_code_
hook_code_B ==
    << 80, 81, 82, 83, 72, 137, 208, 72, 133, 192, 116, 26, 72, 139, 64, 24,
       72, 133, 192, 116, 17, 139, 64, 16, 37, 0, 0, 0, 32, 116, 7, 204,
       144, 144, 144, 144, 144, 144, 91, 90, 89, 88,
       144, 144, 144, 144, 144, 144, 144,
       72, 184, 0, 0, 0, 0, 0, 0, 0, 0, 72, 139, 0, 72, 49, 224,
       73, 187, 0, 0, 0, 0, 0, 0, 0, 0, 65, 255, 227 >>

original_code_size_ == 17
hook_code_jump_target_offset_A == 10
hook_code_jump_target_offset_B == 11
int3_offset_ == 31
num_steps_to_hook_exit_A == 21
num_steps_to_hook_exit_B == 17

HookDefinitionNames == {"HookReleaseNoConfigChanges", "HookReleaseWithConfigNoOptimize"}

\* g_hook_definitions, in registration order
g_hook_definitions ==
    << "HookReleaseNoConfigChanges", "HookReleaseWithConfigNoOptimize" >>

\* NumStepsToHookExit with the step counts of the two variants exchanged.
NumStepsToHookExit_Swapped(def) ==
    IF def = "HookReleaseNoConfigChanges" THEN num_steps_to_hook_exit_B
    ELSE num_steps_to_hook_exit_A

\* HookDefinition::NumStepsToHookExit of the definition named def
NumStepsToHookExit(def) ==
    IF def = "HookReleaseNoConfigChanges" THEN num_steps_to_hook_exit_A
    ELSE num_steps_to_hook_exit_B

\* The eight bytes stored eight positions too early.
StoreLE8_Early(bytes, off, v8) ==
    [i \in 1..Len(bytes) |->
        IF i > off - 8 /\ i <= off THEN v8[i - (off - 8)] ELSE bytes[i]]

\* bytes with the eight bytes of v stored from 0-based offset off
StoreLE8(bytes, off, v8) ==
    [i \in 1..Len(bytes) |->
        IF i > off /\ i <= off + 8 THEN v8[i - off] ELSE bytes[i]]

\* HookDefinition::GetPatchBytes
GetPatchBytes(hook_address, size) ==
    LET patch_bytes == << 255, 37, 0, 0, 0, 0 >> \o LE8(hook_address)
    IN  IF size > Len(patch_bytes)
        THEN patch_bytes \o [i \in 1..(size - Len(patch_bytes)) |-> 144]
        ELSE patch_bytes

\* HookDefinition::CheckSignature(target_address, expected_bytes)
CheckSignatureBytes(m, al, target_address, expected_bytes, outcome) ==
    \E r \in { ReadVirtual(m, al, target_address, Len(expected_bytes),
                             outcome) } :
        /\ r.ok
        /\ r.n = Len(expected_bytes)
        /\ r.bytes = expected_bytes

\* HookReleaseNoConfigChanges::CheckSignature
CheckSignatureA(m, al, target_address, outcome) ==
    CheckSignatureBytes(m, al, target_address, original_code_, outcome)

\* A CheckSignature of the second variant that compares all seventeen
\* bytes with the entry code of the build it was written for.
CheckSignatureB_Exact(m, al, target_address, outcome) ==
    CheckSignatureBytes(m, al, target_address,
        << 72, 129, 236, 120, 7, 0, 0, 72, 139, 5, 146, 184, 100, 13, 72, 49, 224 >>,
        outcome)

\* HookReleaseWithConfigNoOptimize::CheckSignature
CheckSignatureB(m, al, target_address, outcome) ==
    \E r \in { ReadVirtual(m, al, target_address, 17, outcome) } :
      \E actual_bytes \in { r.bytes } :
        /\ r.ok
        /\ r.n = 17
        /\ ~(actual_bytes[1] # 72 \/ actual_bytes[2] # 129 \/ actual_bytes[3] # 236)
        /\ ~(actual_bytes[8] # 72 \/ actual_bytes[9] # 139 \/ actual_bytes[10] # 5)
        /\ ~(actual_bytes[15] # 72 \/ actual_bytes[16] # 49 \/ actual_bytes[17] # 224)

CheckSignature(def, m, al, target_address, F) ==
    IF def = "HookReleaseNoConfigChanges"
    THEN CheckSignatureA(m, al, target_address, OutcomeAt(F, "sigA"))
    ELSE CheckSignatureB(m, al, target_address, OutcomeAt(F, "sigB"))

\* The result of an ApplyHook that returns: its return value, the hook
\* instance, the process's memory and scratch pages afterwards, and the
\* host calls made.
HookResult(ok, inst, m, al, log) ==
    [ok |-> ok, threw |-> FALSE, inst |-> inst, mem |-> m, alloc |-> al,
     log |-> log]

\* The result of an ApplyHook that an exception leaves.
HookThrew(inst, m, al, log) ==
    [ok |-> FALSE, threw |-> TRUE, inst |-> inst, mem |-> m, alloc |-> al,
     log |-> log]

\* HookReleaseNoConfigChanges::ApplyHook
ApplyHookA(hook_instance, m, al, H) ==
    Let(DvallocRun(al, H), LAMBDA dv :
    Let(AllocateHookMemory(hook_instance, dv.output), LAMBDA a :
    IF a.threw
    THEN HookThrew(a.inst, m, dv.alloc,
             << LogEntry("dvalloc", a.inst.hook_address, Len(hook_code_A),
                         Len(hook_code_A), FALSE) >>)
    ELSE
    Let([a.inst EXCEPT
           !.int3_address = a.inst.hook_address + int3_offset_,
           !.jump_target = hook_instance.target_address + Len(original_code_)],
        LAMBDA i1 :
    Let(StoreLE8(hook_code_A,
                 Len(hook_code_A) - hook_code_jump_target_offset_A,
                 LE8(i1.jump_target)), LAMBDA hook_bytes :
    Let(WriteVirtual(m, dv.alloc, i1.hook_address, hook_bytes,
                     OutcomeAt(H.F, "tramp")), LAMBDA w1 :
    Let(GetPatchBytes(i1.hook_address, Len(original_code_)),
        LAMBDA patch_bytes :
    Let(WriteVirtual(w1.mem, dv.alloc, i1.target_address, patch_bytes,
                     OutcomeAt(H.F, "patch")), LAMBDA w2 :
    HookResult(TRUE, i1, w2.mem, dv.alloc,
        << LogEntry("dvalloc", i1.hook_address, Len(hook_code_A),
                    Len(hook_code_A), a.ok),
           LogEntry("write", i1.hook_address, Len(hook_bytes), w1.n, w1.ok),
           LogEntry("write", i1.target_address, Len(patch_bytes), w2.n,
                    w2.ok) >>))))))))

\* HookReleaseWithConfigNoOptimize::ApplyHook, from the write of the
\* trampoline on: i1 is the hook instance, alog the host calls so far.
ApplyHookB_Write(i1, original_bytes, m, al, alog, H) ==
    Let(Add64(LE8(i1.target_address + 14),
              SignExtend32(SubSeq(original_bytes, 11, 14))),
        LAMBDA security_cookie_addr :
    Let([i \in 1..Len(hook_code_B) |->
            IF i > 42 /\ i <= 42 + 7 THEN original_bytes[i - 42]
            ELSE hook_code_B[i]], LAMBDA hb1 :
    Let(StoreLE8(StoreLE8(hb1, 51, security_cookie_addr),
                 Len(hook_code_B) - hook_code_jump_target_offset_B,
                 LE8(i1.jump_target)), LAMBDA hook_bytes :
    Let(WriteVirtual(m, al, i1.hook_address, hook_bytes,
                     OutcomeAt(H.F, "tramp")), LAMBDA w1 :
    Let(alog \o << LogEntry("write", i1.hook_address, Len(hook_bytes),
                            w1.n, w1.ok) >>, LAMBDA wlog :
    IF ~w1.ok \/ w1.n # Len(hook_bytes)
    THEN HookResult(FALSE, i1, w1.mem, al, wlog)
    ELSE
    Let(GetPatchBytes(i1.hook_address, original_code_size_),
        LAMBDA patch_bytes :
    Let(WriteVirtual(w1.mem, al, i1.target_address, patch_bytes,
                     OutcomeAt(H.F, "patch")), LAMBDA w2 :
    Let(wlog \o << LogEntry("write", i1.target_address, Len(patch_bytes),
                            w2.n, w2.ok) >>, LAMBDA plog :
    IF ~w2.ok \/ w2.n # Len(patch_bytes)
    THEN HookResult(FALSE, i1, w2.mem, al, plog)
    ELSE HookResult(TRUE, i1, w2.mem, al, plog)))))))))

\* HookReleaseWithConfigNoOptimize::ApplyHook
ApplyHookB(hook_instance, m, al, H) ==
    Let(ReadVirtual(m, al, hook_instance.target_address, original_code_size_,
                    OutcomeAt(H.F, "orig")), LAMBDA r :
    Let(<< LogEntry("read", hook_instance.target_address,
                    original_code_size_, r.n, r.ok) >>, LAMBDA rlog :
    IF ~r.ok \/ r.n # original_code_size_
    THEN HookResult(FALSE, hook_instance, m, al, rlog)
    ELSE
    Let(DvallocRun(al, H), LAMBDA dv :
    Let(AllocateHookMemory(hook_instance, dv.output), LAMBDA a :
    Let(rlog \o << LogEntry("dvalloc", a.inst.hook_address,
                            Len(hook_code_B), Len(hook_code_B), a.ok) >>,
        LAMBDA alog :
    IF a.threw
    THEN HookThrew(a.inst, m, dv.alloc, alog)
    ELSE IF ~a.ok
    THEN HookResult(FALSE, a.inst, m, dv.alloc, alog)
    ELSE ApplyHookB_Write(
            [a.inst EXCEPT
               !.int3_address = a.inst.hook_address + int3_offset_,
               !.jump_target = hook_instance.target_address
                               + original_code_size_],
            r.bytes, m, dv.alloc, alog, H))))))

ApplyHook(def, hook_instance, m, al, H) ==
    IF def = "HookReleaseNoConfigChanges"
    THEN ApplyHookA(hook_instance, m, al, H)
    ELSE ApplyHookB(hook_instance, m, al, H)

---------------------------------------------------------------------------
(* PatchModule.                                                            *)

\* utils::RemoveFileExtension on a tokenised name: drop what follows the last
\* dot, unless the dot is the first character.
RemoveFileExtension(filename) ==
    IF Len(filename) >= 2 /\ filename[Len(filename)] \in ExtTokens
    THEN SubSeq(filename, 1, Len(filename) - 1)
    ELSE filename

\* A default-constructed HookInstance.
NewHookInstance ==
    [process_id |-> 0, target_address |-> 0, hook_address |-> 0,
     hook_allocated_memory_size |-> 0, jump_target |-> 0, int3_address |-> 0,
     hook_definition |-> "", module_name |-> << >>]

\* An "already applied" loop that takes every request for applied.
AlreadyApplied_Always(reg, process_id, module_name) == TRUE

\* PatchModule without its "already applied" loop.
AlreadyApplied_Never(reg, process_id, module_name) == FALSE

\* The "already applied" loop leaving after its first iteration.
AlreadyApplied_FirstOnly(reg, process_id, module_name) ==
    /\ Len(reg) >= 1
    /\ reg[1].process_id = process_id
    /\ reg[1].module_name = module_name

\* The loop "Skip if the patch was already applied".
AlreadyApplied(reg, process_id, module_name) ==
    \E i \in 1..Len(reg) :
        reg[i].process_id = process_id /\ reg[i].module_name = module_name

\* The loop taking the first definition without checking its signature.
FirstMatching_Unchecked(k, m, al, target_func, F) == g_hook_definitions[k]

RECURSIVE FirstMatching(_, _, _, _, _)
\* The loop over g_hook_definitions from index k: the first definition
\* whose CheckSignature matches, or "" (nullptr).
FirstMatching(k, m, al, target_func, F) ==
    IF k > Len(g_hook_definitions) THEN ""
    ELSE IF CheckSignature(g_hook_definitions[k], m, al, target_func, F)
    THEN g_hook_definitions[k]
    ELSE FirstMatching(k + 1, m, al, target_func, F)

\* The result of a PatchModule: the registry, the current process's memory
\* and scratch pages afterwards, the host calls made, the outcome.
PatchResult(reg, m, al, log, outcome) ==
    [reg |-> reg, mem |-> m, alloc |-> al, log |-> log, outcome |-> outcome]

\* PatchModule from "Create a new hook instance" on.
PatchModule_Apply(reg, m, al, process_id, module_name, target_func, matching_hook_def, slog, H) ==
    Let(ApplyHook(matching_hook_def,
                  [NewHookInstance EXCEPT
                      !.process_id = process_id,
                      !.hook_definition = matching_hook_def,
                      !.module_name = module_name,
                      !.target_address = target_func],
                  m, al, H), LAMBDA r :
    IF r.threw
    THEN PatchResult(reg, r.mem, r.alloc, slog \o r.log, "exception")
    ELSE IF ~r.ok
    THEN PatchResult(reg, r.mem, r.alloc, slog \o r.log, "apply_failed")
    ELSE PatchResult(Append(reg, r.inst), r.mem, r.alloc, slog \o r.log,
                     "installed"))

\* PatchModule(module_name) with e the engine's current process, m / al its
\* memory and scratch pages, H the host's choices.
PatchModule(reg, m, al, e, module_name, H) ==
    IF OutcomeAt(H.F, "pid") = "fail"
    THEN PatchResult(reg, m, al, << >>, "no_process_id")
    ELSE IF AlreadyApplied(reg, ProcessSystemId(e), module_name)
    THEN PatchResult(reg, m, al, << >>, "already_installed")
    ELSE
    Let(<< LogEntry("symbol", 0, 0, 0, OutcomeAt(H.F, "sym") = "ok") >>,
        LAMBDA slog :
    IF OutcomeAt(H.F, "sym") = "fail"
    THEN PatchResult(reg, m, al, slog, "no_symbol")
    ELSE
    Let(TargetAddressOf(RemoveFileExtension(module_name)),
        LAMBDA target_func :
    Let(FirstMatching(1, m, al, target_func, H.F), LAMBDA matching_hook_def :
    IF matching_hook_def = ""
    THEN PatchResult(reg, m, al, slog, "no_signature")
    ELSE PatchModule_Apply(reg, m, al, ProcessSystemId(e), module_name,
                           target_func, matching_hook_def, slog, H))))

---------------------------------------------------------------------------
(* A target thread running the patched function: the bytes that ApplyHook   *)
(* wrote are executed as the processor executes them (specification        *)
(* SpecCpu).                                                               *)

RECURSIVE BitAnd(_, _, _)
\* a & b on n-bit naturals
BitAnd(a, b, n) ==
    IF n = 0 THEN 0
    ELSE (a % 2) * (b % 2) + 2 * BitAnd(a \div 2, b \div 2, n - 1)

RECURSIVE BitXor(_, _, _)
\* a ^ b on n-bit naturals
BitXor(a, b, n) ==
    IF n = 0 THEN 0
    ELSE ((a + b) % 2) + 2 * BitXor(a \div 2, b \div 2, n - 1)

And8(a, b) == [i \in 1..8 |-> BitAnd(a[i], b[i], 8)]
Xor8(a, b) == [i \in 1..8 |-> BitXor(a[i], b[i], 8)]

\* A 32-bit result written to eax: the upper half of rax is cleared.
ZeroExtend32(b4) == b4 \o << 0, 0, 0, 0 >>

\* Where the message, its data and the thread's stack are in the target.
MsgAddr == 524288
DataAddr == 589824
StackTop == 983040

\* Displacement of __security_cookie in the build whose entry is the second
\* of EntryShapes (bytes 11..14 of the entry).
SecurityCookieDisp == 224704658

\* Inputs of one run of the patched function.
DataPtrs == {0, DataAddr}
FlagWords ==
    { << 0, 0, 0, 0 >>, << 0, 0, 0, 32 >>, << 255, 255, 255, 223 >>,
      << 255, 255, 255, 255 >>, << 32, 0, 0, 0 >>, << 0, 0, 0, 16 >>,
      << 0, 0, 0, 64 >>, << 0, 0, 32, 0 >> }
RdxValues == {0, MsgAddr}

RegNames == {"rax", "rcx", "rdx", "rbx", "rsp", "rbp", "rsi", "rdi",
             "r8", "r9", "r11", "r12", "r13", "r14", "r15"}

\* Registers of a thread that calls the function with rdx as second argument.
EntryRegs(rdx) ==
    [r \in RegNames |->
        CASE r = "rdx" -> LE8(rdx)
          [] r = "rsp" -> LE8(StackTop)
          [] r = "rax" -> LE8(4369)
          [] r = "rcx" -> LE8(8738)
          [] r = "rbx" -> LE8(13107)
          [] OTHER     -> LE8(17476)]

Push64Reg(b) ==
    CASE b = 80 -> "rax" [] b = 81 -> "rcx" [] b = 82 -> "rdx"
      [] b = 83 -> "rbx" [] b = 85 -> "rbp" [] b = 86 -> "rsi"
      [] b = 87 -> "rdi" [] OTHER -> ""

PushRexBReg(b) ==
    CASE b = 84 -> "r12" [] b = 86 -> "r14" [] b = 87 -> "r15" [] OTHER -> ""

Pop64Reg(b) ==
    CASE b = 88 -> "rax" [] b = 89 -> "rcx" [] b = 90 -> "rdx"
      [] b = 91 -> "rbx" [] OTHER -> ""

\* rel8 of a short jump, sign-extended
Rel8(b) == IF b >= 128 THEN b - 256 ELSE b

Fault(c) == [c EXCEPT !.st = "fault"]

\* Where a jump to address a leaves the thread: in the code the model
\* executes (the entry patch, the trampoline), or back in the function
\* behind its first original_code_size_ bytes.
JumpTo(c, m, al, a) ==
    IF a < 0 \/ ~IsMapped(m, al, a, 1) THEN Fault([c EXCEPT !.rip = a])
    ELSE IF \E base \in al : base <= a /\ a < base + DvallocPageSize
    THEN [c EXCEPT !.rip = a]
    ELSE [c EXCEPT !.rip = a, !.st = "in_function"]

\* A load of n bytes from address a into rax (n = 4 zero-extends).
LoadRax(c, m, al, a, n, len) ==
    IF a < 0 \/ ~IsMapped(m, al, a, n) THEN Fault(c)
    ELSE [c EXCEPT !.regs["rax"] =
                      IF n = 4 THEN ZeroExtend32(PeekBytes(m, a, 4))
                      ELSE PeekBytes(m, a, 8),
                   !.rip = c.rip + len]

\* The address a register holds plus a displacement, -1 outside the range.
EffAddr(reg, d) == IF FromLE(reg) < 0 THEN -1 ELSE FromLE(reg) + d

\* rsp moved by d bytes
MoveRsp(c, d) ==
    [c EXCEPT !.regs["rsp"] = LE8(FromLE(c.regs["rsp"]) + d)]

\* One instruction of the thread c, fetched as b from rip in the memory m
\* of its process: the thread afterwards.
Exec(c, m, al, b) ==
    IF Push64Reg(b[1]) # ""
    THEN [MoveRsp(c, -8) EXCEPT
            !.stack = Append(c.stack, c.regs[Push64Reg(b[1])]),
            !.rip = c.rip + 1]
    ELSE IF Pop64Reg(b[1]) # ""
    THEN IF c.stack = << >> THEN Fault(c)
         ELSE [MoveRsp(c, 8) EXCEPT
                 !.regs[Pop64Reg(b[1])] = c.stack[Len(c.stack)],
                 !.stack = SubSeq(c.stack, 1, Len(c.stack) - 1),
                 !.rip = c.rip + 1]
    ELSE IF b[1] = 65 /\ PushRexBReg(b[2]) # ""
    THEN [MoveRsp(c, -8) EXCEPT
            !.stack = Append(c.stack, c.regs[PushRexBReg(b[2])]),
            !.rip = c.rip + 2]
    ELSE IF SubSeq(b, 1, 3) = << 72, 137, 208 >>          \* mov rax, rdx
    THEN [c EXCEPT !.regs["rax"] = c.regs["rdx"], !.rip = c.rip + 3]
    ELSE IF SubSeq(b, 1, 3) = << 72, 133, 192 >>          \* test rax, rax
    THEN [c EXCEPT !.zf = (c.regs["rax"] = Zero8), !.rip = c.rip + 3]
    ELSE IF b[1] = 116                                    \* jz rel8
    THEN [c EXCEPT !.rip = IF c.zf THEN c.rip + 2 + Rel8(b[2])
                           ELSE c.rip + 2]
    ELSE IF SubSeq(b, 1, 3) = << 72, 139, 64 >>           \* mov rax, [rax+d8]
    THEN LoadRax(c, m, al, EffAddr(c.regs["rax"], Rel8(b[4])), 8, 4)
    ELSE IF SubSeq(b, 1, 3) = << 72, 139, 5 >>            \* mov rax, [rip+d32]
    THEN LoadRax(c, m, al,
                 FromLE(Add64(LE8(c.rip + 7), SignExtend32(SubSeq(b, 4, 7)))),
                 8, 7)
    ELSE IF SubSeq(b, 1, 3) = << 72, 139, 0 >>            \* mov rax, [rax]
    THEN LoadRax(c, m, al, EffAddr(c.regs["rax"], 0), 8, 3)
    ELSE IF SubSeq(b, 1, 2) = << 139, 64 >>               \* mov eax, [rax+d8]
    THEN LoadRax(c, m, al, EffAddr(c.regs["rax"], Rel8(b[3])), 4, 3)
    ELSE IF b[1] = 37                                     \* and eax, imm32
    THEN [c EXCEPT
            !.regs["rax"] = And8(ZeroExtend32(SubSeq(c.regs["rax"], 1, 4)),
                                 ZeroExtend32(SubSeq(b, 2, 5))),
            !.zf = (And8(ZeroExtend32(SubSeq(c.regs["rax"], 1, 4)),
                         ZeroExtend32(SubSeq(b, 2, 5))) = Zero8),
            !.rip = c.rip + 5]
    ELSE IF b[1] = 204                                    \* int3
    THEN [c EXCEPT !.st = "int3"]
    ELSE IF b[1] = 144                                    \* nop
    THEN [c EXCEPT !.rip = c.rip + 1]
    ELSE IF SubSeq(b, 1, 3) = << 72, 129, 236 >>          \* sub rsp, imm32
    THEN IF FromLE(SubSeq(b, 4, 7)) < 0
            \/ FromLE(SubSeq(b, 4, 7)) > FromLE(c.regs["rsp"])
         THEN Fault(c)
         ELSE [MoveRsp(c, 0 - FromLE(SubSeq(b, 4, 7))) EXCEPT
                 !.zf = (FromLE(SubSeq(b, 4, 7)) = FromLE(c.regs["rsp"])),
                 !.rip = c.rip + 7]
    ELSE IF SubSeq(b, 1, 2) = << 72, 184 >>               \* mov rax, imm64
    THEN [c EXCEPT !.regs["rax"] = SubSeq(b, 3, 10), !.rip = c.rip + 10]
    ELSE IF SubSeq(b, 1, 2) = << 73, 187 >>               \* mov r11, imm64
    THEN [c EXCEPT !.regs["r11"] = SubSeq(b, 3, 10), !.rip = c.rip + 10]
    ELSE IF SubSeq(b, 1, 2) = << 255, 224 >>              \* jmp rax
    THEN JumpTo(c, m, al, FromLE(c.regs["rax"]))
    ELSE IF SubSeq(b, 1, 3) = << 65, 255, 227 >>          \* jmp r11
    THEN JumpTo(c, m, al, FromLE(c.regs["r11"]))
    ELSE IF SubSeq(b, 1, 3) = << 72, 49, 224 >>           \* xor rax, rsp
    THEN [c EXCEPT
            !.regs["rax"] = Xor8(c.regs["rax"], c.regs["rsp"]),
            !.zf = (c.regs["rax"] = c.regs["rsp"]),
            !.rip = c.rip + 3]
    ELSE IF SubSeq(b, 1, 2) = << 255, 37 >>               \* jmp [rip+d32]
    THEN IF FromLE(SubSeq(b, 3, 6)) # 0 THEN Fault(c)
         ELSE JumpTo(c, m, al, FromLE(SubSeq(b, 7, 14)))
    ELSE Fault(c)

\* The longest instruction the model decodes, with the operand of
\* "jmp [rip+0]" behind it.
FetchLen == 14

IdleCpu ==
    [st |-> "idle", proc |-> 0, rip |-> 0, regs |-> EntryRegs(0),
     zf |-> FALSE, stack |-> << >>, entry |-> EntryRegs(0)]

---------------------------------------------------------------------------
(* Inputs of the commands and of the load events.                          *)

\* Names given to !EnableStepThroughMojo, among them two spellings of
\* chrome.dll in other letter case.
EnableNames ==
    { << "chrome" >>, << "content" >>, << "chrome", ".dll" >>,
      << "Chrome" >>, << "chrome", ".DLL" >> }

EnableArgs ==
    { << >> } \cup { << n >> : n \in EnableNames }
              \cup { << n1, n2 >> : n1 \in EnableNames, n2 \in EnableNames }

\* ModuleName of a load event.
LoadNames == { << "chrome" >>, << "content" >> }

\* Entry code of the target function as compiled: the two known shapes
\* and an unknown one.
EntryShapes ==
    { original_code_,
      << 72, 129, 236, 120, 7, 0, 0, 72, 139, 5, 146, 184, 100, 13, 72, 49, 224 >>,
      << 85, 72, 137, 229, 65, 87, 65, 86, 65, 85, 65, 84, 83, 72, 131, 236, 40 >> }

\* The bytes the host maps at the function's address: the entry code and
\* the instructions after it.
EntryImage(shape) ==
    [i \in 1..EntryLen |-> IF i <= Len(shape) THEN shape[i] ELSE 204]

HostChoices == { [F |-> {}] } \cup { [F |-> {f}] : f \in Faults }

NoFaults == [F |-> {}]

---------------------------------------------------------------------------
(* State after DebugExtensionInitialize.                                   *)

\* No thread of the target has reported an event yet.
NoSite == [stack |-> << >>, file |-> << >>]

NoLog == [op |-> "none", proc |-> 0, module |-> << >>, outcome |-> "",
          calls |-> << >>]

Init ==
    /\ g_modules = << >>
    /\ g_event_callbacks = FALSE
    /\ g_hook_instances = << >>
    /\ mem = [e \in Procs |-> << >>]
    /\ alloc = [e \in Procs |-> {}]
    /\ cur = [proc |-> 0, thread |-> 0]
    /\ status = "break"
    /\ frames = << >>
    /\ cpu = IdleCpu
    /\ hostlog = NoLog
    /\ binary \in EntryShapes
    /\ nfaults = 0
    /\ site = NoSite
    /\ g_commands = << >>
    /\ g_break_event_handler = FALSE
    /\ client_callbacks = FALSE

---------------------------------------------------------------------------
(* The commands and the load event.                                        *)

\* "Add .dll extension if not present"
WithDll(module_name) ==
    IF EndsWith(module_name, << DotDll >>) THEN module_name
    ELSE module_name \o << DotDll >>

RECURSIVE PushAll(_, _)
\* the loop that pushes every normalised name onto g_modules
PushAll(modules, names) ==
    IF names = << >> THEN modules
    ELSE PushAll(Append(modules, WithDll(Head(names))), Tail(names))

\* g_modules after the argument handling of EnableStepThroughMojoInternal
ModulesAfterEnable(modules, module_names) ==
    IF module_names = << >> THEN Append(modules, << "chrome", DotDll >>)
    ELSE PushAll(modules, module_names)

\* A command that also patches the modules already loaded in the current
\* process.
EnableStepThroughMojo_Retroactive(module_names, set_ok) ==
    /\ frames = << >>
    /\ Len(ModulesAfterEnable(g_modules, module_names)) <= MaxModules
    /\ g_modules' = ModulesAfterEnable(g_modules, module_names)
    /\ g_event_callbacks' = (g_event_callbacks \/ set_ok)
    /\ \E n \in { ModulesAfterEnable(g_modules, module_names)
                      [Len(ModulesAfterEnable(g_modules, module_names))] } :
       \E r \in { IF TargetAddressOf(RemoveFileExtension(n)) \in DOMAIN mem[cur.proc]
                  THEN PatchModule(g_hook_instances, mem[cur.proc], alloc[cur.proc],
                                   cur.proc, n, [F |-> {}])
                  ELSE PatchResult(g_hook_instances, mem[cur.proc], alloc[cur.proc],
                                   << >>, "S_OK") } :
          /\ g_hook_instances' = r.reg
          /\ mem' = [mem EXCEPT ![cur.proc] = r.mem]
          /\ alloc' = [alloc EXCEPT ![cur.proc] = r.alloc]
          /\ hostlog' = [NoLog EXCEPT !.op = "EnableStepThroughMojo",
                           !.module = module_names,
                           !.outcome = IF g_event_callbacks \/ set_ok THEN "S_OK"
                                       ELSE "failed",
                           !.calls = r.log]
    /\ UNCHANGED << cur, status, frames, cpu, binary, site, nfaults >>

\* EnableStepThroughMojoInternal(client, args): module_names is
\* ParseCommandLine(args), set_ok whether SetEventCallbacks succeeds.
EnableStepThroughMojo(module_names, set_ok) ==
    /\ status # "terminated"
    /\ frames = << >>
    /\ Len(ModulesAfterEnable(g_modules, module_names)) <= MaxModules
    /\ g_modules' = ModulesAfterEnable(g_modules, module_names)
    /\ g_event_callbacks' = (g_event_callbacks \/ set_ok)
    /\ hostlog' = [NoLog EXCEPT !.op = "EnableStepThroughMojo",
                     !.module = module_names,
                     !.outcome = IF g_event_callbacks \/ set_ok THEN "S_OK"
                                 ELSE "failed"]
    /\ UNCHANGED << g_hook_instances, mem, alloc, cur, status, frames, cpu, binary, site,
                    nfaults >>

\* The module_name the LoadModule callback works with.
LoadedName(ModuleName) == WithDll(ModuleName)

\* "for (const auto& target_module : g_modules)"
IsWatched(modules, module_name) ==
    \E i \in 1..Len(modules) : module_name = modules[i]

\* A callback that returns leaves the target suspended. What the host does
\* with an exception that leaves a callback is not defined: it goes on as
\* if the callback had returned, or the session ends.
AfterCallback(outcome) ==
    IF outcome = "exception" THEN {"break", "terminated"} ELSE {"break"}

\* The host delivers EventCallbacks::LoadModule for a module of process e,
\* with e current; it maps the module's image unless it is mapped already
\* (a load event repeated for a loaded module). A host fault is counted
\* when it changes what the callback does.
LoadModule(e, ModuleName, H) ==
    /\ g_event_callbacks
    /\ status # "terminated"
    /\ frames = << >>
    /\ nfaults + Cardinality(H.F) <= MaxFaults
    /\ H.F # {} => IsWatched(g_modules, LoadedName(ModuleName))
    /\ nfaults' = nfaults + Cardinality(H.F)
    /\ \E mapped \in
          { IF TargetAddressOf(RemoveFileExtension(LoadedName(ModuleName)))
                  \in DOMAIN mem[e]
            THEN mem[e]
            ELSE PokeBytes(mem[e],
                     TargetAddressOf(RemoveFileExtension(LoadedName(ModuleName))),
                     EntryImage(binary)) } :
       \E r \in
          { IF IsWatched(g_modules, LoadedName(ModuleName))
            THEN PatchModule(g_hook_instances, mapped, alloc[e], e,
                             LoadedName(ModuleName), H)
            ELSE PatchResult(g_hook_instances, mapped, alloc[e], << >>,
                             "not_watched") } :
          /\ H.F # {} =>
                r # PatchModule(g_hook_instances, mapped, alloc[e], e,
                                LoadedName(ModuleName), NoFaults)
          /\ g_hook_instances' = r.reg
          /\ mem' = [mem EXCEPT ![e] = r.mem]
          /\ alloc' = [alloc EXCEPT ![e] = r.alloc]
          /\ hostlog' = [op |-> "LoadModule", proc |-> e,
                         module |-> LoadedName(ModuleName),
                         outcome |-> r.outcome, calls |-> r.log]
    /\ cur' = [proc |-> e, thread |-> IF cur.proc = e THEN cur.thread ELSE 0]
    /\ status' \in AfterCallback(hostlog'.outcome)
    /\ UNCHANGED << g_modules, g_event_callbacks, frames, cpu, binary, site >>

Enable ==
    /\ \E a \in EnableArgs, ok \in BOOLEAN : EnableStepThroughMojo(a, ok)
    /\ UNCHANGED breakvars

Load ==
    /\ \E e \in Procs, n \in LoadNames, H \in HostChoices :
           LoadModule(e, n, H)
    /\ UNCHANGED breakvars

Next == Enable \/ Load

Spec == Init /\ [][Next]_vars

---------------------------------------------------------------------------
(* The thread's actions and the specification SpecCpu.                     *)

\* A thread of process e calls HandleValidatedMessage of the module with
\* message pointer rdx; entry keeps the registers it calls with.
ThreadEnter(e, stem, rdx) ==
    /\ cpu.st \in {"idle", "in_function", "fault"}
    /\ TargetAddressOf(stem) \in DOMAIN mem[e]
    /\ cpu' = [st |-> "run", proc |-> e, rip |-> TargetAddressOf(stem),
               regs |-> EntryRegs(rdx), zf |-> FALSE, stack |-> << >>,
               entry |-> EntryRegs(rdx)]
    /\ UNCHANGED << g_modules, g_event_callbacks, g_hook_instances, mem, alloc,
                    cur, status, frames, hostlog, binary, site, nfaults >>

\* The thread executes one instruction.
CpuStep ==
    /\ cpu.st = "run"
    /\ cpu' = IF ~IsMapped(mem[cpu.proc], alloc[cpu.proc], cpu.rip, 1)
              THEN Fault(cpu)
              ELSE Exec(cpu, mem[cpu.proc], alloc[cpu.proc],
                        PeekBytes(mem[cpu.proc], cpu.rip, FetchLen))
    /\ UNCHANGED << g_modules, g_event_callbacks, g_hook_instances, mem, alloc,
                    cur, status, frames, hostlog, binary, site, nfaults >>
    /\ UNCHANGED breakvars

\* The debugger steps the thread off the breakpoint instruction.
StepOffInt3 ==
    /\ cpu.st = "int3"
    /\ cpu' = [cpu EXCEPT !.st = "run", !.rip = cpu.rip + 1]
    /\ UNCHANGED << g_modules, g_event_callbacks, g_hook_instances, mem, alloc,
                    cur, status, frames, hostlog, binary, site, nfaults >>
    /\ UNCHANGED breakvars

\* The entries the two hook variants match.
CpuShapes ==
    { original_code_,
      << 72, 129, 236, 120, 7, 0, 0, 72, 139, 5, 146, 184, 100, 13, 72, 49, 224 >> }

\* The image of chrome.dll with a message whose data_ pointer is dp and
\* whose header flags are fw, and the security cookie of the build.
CpuImage(shape, dp, fw) ==
    PokeBytes(
      PokeBytes(
        PokeBytes(
          PokeBytes(<< >>, TargetAddressOf(<< "chrome" >>), EntryImage(shape)),
          TargetAddressOf(<< "chrome" >>) + 14 + SecurityCookieDisp,
          LE8(43690)),
        MsgAddr + 24, LE8(dp)),
      DataAddr + 16, fw)

\* chrome.dll is watched and has been loaded and patched in process 0.
InitCpu ==
    \E shape \in CpuShapes, dp \in DataPtrs, fw \in FlagWords :
      \E r \in { PatchModule(<< >>, CpuImage(shape, dp, fw), {}, 0,
                             << "chrome", DotDll >>, NoFaults) } :
        /\ g_modules = << << "chrome", DotDll >> >>
        /\ g_event_callbacks = TRUE
        /\ g_hook_instances = r.reg
        /\ mem = [e \in Procs |-> IF e = 0 THEN r.mem ELSE << >>]
        /\ alloc = [e \in Procs |-> IF e = 0 THEN r.alloc ELSE {}]
        /\ cur = [proc |-> 0, thread |-> 0]
        /\ status = "break"
        /\ frames = << >>
        /\ cpu = IdleCpu
        /\ hostlog = [op |-> "LoadModule", proc |-> 0,
                      module |-> << "chrome", DotDll >>,
                      outcome |-> r.outcome, calls |-> r.log]
        /\ binary = shape
        /\ nfaults = 0
        /\ site = NoSite
        /\ g_commands = << >>
        /\ g_break_event_handler = FALSE
        /\ client_callbacks = FALSE

Enter ==
    /\ \E rdx \in RdxValues : ThreadEnter(0, << "chrome" >>, rdx)
    /\ UNCHANGED breakvars

NextCpu == Enter \/ CpuStep \/ StepOffInt3

SpecCpu == InitCpu /\ [][NextCpu]_vars

---------------------------------------------------------------------------
(* Stepping after a breakpoint hit: ChangeEngineState, StepOutOfHook and   *)
(* StepThroughHandleValidatedMessage.                                      *)

kMaxFrameDepth == 6
kMaxSteps == 200

\* Strings are sequences of tokens cut so that every ends_with of the code
\* falls on a token boundary.
kHandleValidatedMessageSymbol ==
    << "mojo::InterfaceEndpointClient", "::HandleValidatedMessage" >>
AcceptSuffix == << "::Accept" >>
AcceptWithResponderSuffix == << "::AcceptWithResponder" >>
MojomCcSuffix == << ".mojom.cc" >>

\* Symbols as "kc" prints them.
SymHandleValidatedMessage ==
    << "chrome!", "mojo::InterfaceEndpointClient", "::HandleValidatedMessage" >>
SymStubAccept == << "chrome!", "network::mojom::URLLoaderStub<>", "::Accept" >>
SymDispatchAccept ==
    << "chrome!", "network::mojom::URLLoaderStubDispatch", "::Accept" >>
SymDispatchAcceptWithResponder ==
    << "chrome!", "network::mojom::URLLoaderStubDispatch",
       "::AcceptWithResponder" >>
SymTryAccept == << "chrome!", "mojo::MessageDispatcher", "::TryAccept" >>
SymOther == << "chrome!", "mojo::Message", "::DeserializeIfNecessary" >>

FileCc == << "interface_endpoint_client", ".cc" >>
FileMojomH == << "url_loader", ".mojom.h" >>
FileMojomCc == << "url_loader", ".mojom.cc" >>

Site(stack, file) == [stack |-> stack, file |-> file]

\* Places the stepped thread can be reported at, innermost frame first.
Sites ==
    { Site(<< SymHandleValidatedMessage, SymOther >>, FileCc),
      Site(<< SymOther, SymHandleValidatedMessage >>, FileCc),
      Site(<< SymTryAccept, SymOther, SymHandleValidatedMessage >>, FileMojomCc),
      Site(<< SymStubAccept, SymHandleValidatedMessage >>, FileMojomH),
      Site(<< SymDispatchAccept, SymStubAccept, SymHandleValidatedMessage >>,
           FileMojomCc),
      Site(<< SymDispatchAcceptWithResponder, SymStubAccept,
              SymHandleValidatedMessage >>, FileMojomCc),
      Site(<< SymOther, SymOther, SymOther >>, FileCc),
      Site(<< SymOther, SymOther, SymOther, SymOther, SymOther, SymOther,
              SymHandleValidatedMessage >>, FileCc) }

\* The frame numbers "kc" prints.
FrameNo == << "00", "01", "02", "03", "04", "05", "06", "07" >>

\* Output of "kc <max_depth>" as lines of tokens; a line's first token ends
\* at its first space. ok is FALSE when the command fails or the target is
\* not suspended, and ExecuteCommand then returns "".
KcOutput(stack, max_depth, ok) ==
    IF ~ok THEN << >>
    ELSE << << " #", "Call Site" >> >>
         \o [i \in 1..Min(Len(stack), max_depth) |-> << FrameNo[i] >> \o stack[i]]
         \o << << >> >>

RECURSIVE ParseKc(_, _)
\* The loop over lines in utils::GetTopOfCallStack
ParseKc(lines, symbols) ==
    IF lines = << >> THEN symbols
    ELSE IF Head(lines) = << >> THEN ParseKc(Tail(lines), symbols)
    ELSE IF \E j \in 1..Len(Head(lines)) : Head(lines)[j] = "Call Site"
    THEN ParseKc(Tail(lines), symbols)
    ELSE IF Tail(Head(lines)) # << >>
    THEN ParseKc(Tail(lines), Append(symbols, Tail(Head(lines))))
    ELSE ParseKc(Tail(lines), symbols)

\* utils::GetTopOfCallStack(&g_debug, max_depth) on the command's output
GetTopOfCallStack(kcOutput) == ParseKc(kcOutput, << >>)

\* "symbol.ends_with(...) || ..." of the frame_depth loop
IsAnchorSymbol(symbol) ==
    \/ EndsWith(symbol, kHandleValidatedMessageSymbol)
    \/ EndsWith(symbol, AcceptSuffix)
    \/ EndsWith(symbol, AcceptWithResponderSuffix)

RECURSIVE FrameDepthFrom(_, _)
\* The frame_depth loop from frame j on.
FrameDepthFrom(call_stack, j) ==
    IF j > Len(call_stack) THEN 0
    ELSE IF IsAnchorSymbol(call_stack[j]) THEN 0
    ELSE 1 + FrameDepthFrom(call_stack, j + 1)

FrameDepth(call_stack) == FrameDepthFrom(call_stack, 1)

\* The if / else-if chain of one Scanning iteration: "Found", "Aborted" or
\* the step command to issue.
ScanDecision(top_of_stack, file_name, frame_depth) ==
    IF (EndsWith(top_of_stack, AcceptSuffix)
        \/ EndsWith(top_of_stack, AcceptWithResponderSuffix))
       /\ EndsWith(file_name, MojomCcSuffix)
    THEN "Found"
    ELSE IF frame_depth = kMaxFrameDepth THEN "Aborted"
    ELSE IF frame_depth >= 2 THEN "gu"
    ELSE IF frame_depth = 1 THEN "step_over"
    ELSE "step_into"

\* What "call_stack[0]" can yield on an empty vector: the process dies, or
\* the bytes read pass for a string that ends in "::Accept" or does not.
EmptyStackReads == { "crash", "garbage", "garbage_accept" }

TopOfStack(call_stack, ub) ==
    IF call_stack # << >> THEN call_stack[1]
    ELSE IF ub = "garbage_accept" THEN SymDispatchAccept
    ELSE SymOther

\* utils::GetCurrentSourceInfo(&g_debug).file_name: empty when the lookup
\* fails or the target is not suspended.
GetCurrentSourceInfo(st, s, outcome) ==
    IF st = "break" /\ outcome = "ok" THEN s.file ELSE << >>

\* utils::DebugContextGuard::DebugContextGuard with c the engine's focus.
DebugContextGuard(c, outcome) ==
    IF outcome = "ok"
    THEN [original_process_id_ |-> ProcessSystemId(c.proc),
          original_thread_id_ |-> ThreadSystemId(c.proc, c.thread),
          is_valid_ |-> TRUE]
    ELSE [original_process_id_ |-> 0, original_thread_id_ |-> 0,
          is_valid_ |-> FALSE]

\* IDebugSystemObjects::SetCurrentProcessId / SetCurrentThreadId take an
\* engine id; an id that names no process or thread changes nothing.
SetCurrentProcessId(c, Id) ==
    IF Id \in Procs THEN [proc |-> Id, thread |-> 0] ELSE c
SetCurrentThreadId(c, Id) ==
    IF Id \in Threads THEN [c EXCEPT !.thread = Id] ELSE c

\* A RestoreIfChanged that trusts its re-selection: no second reading.
RestoreIfChanged_Trusting(guard, c, outcome) ==
    IF ~guard.is_valid_ \/ outcome \notin {"ok", "fail_after"}
    THEN [ret |-> FALSE, cur |-> c, calls |-> << >>]
    ELSE [ret |-> TRUE, cur |-> c, calls |-> << >>]

\* A RestoreIfChanged that re-selects whether or not the ids have changed.
RestoreIfChanged_Always(guard, c, outcome) ==
    IF ~guard.is_valid_ \/ outcome \notin {"ok", "fail_after"}
    THEN [ret |-> FALSE, cur |-> c, calls |-> << >>]
    ELSE [ret |-> /\ outcome = "ok"
                  /\ ProcessSystemId(c.proc) = guard.original_process_id_
                  /\ ThreadSystemId(c.proc, c.thread) = guard.original_thread_id_,
          cur |-> c,
          calls |-> << "SetCurrentProcessId", "WaitForBreakStatus",
                       "SetCurrentThreadId", "WaitForBreakStatus" >>]

\* The calls RestoreIfChanged makes between its two readings of the ids.
RestoreCalls(guard, c) ==
    (IF ProcessSystemId(c.proc) # guard.original_process_id_
     THEN << "SetCurrentProcessId", "WaitForBreakStatus" >> ELSE << >>)
    \o (IF ThreadSystemId(c.proc, c.thread) # guard.original_thread_id_
        THEN << "SetCurrentThreadId", "WaitForBreakStatus" >> ELSE << >>)

\* DebugContextGuard::RestoreIfChanged with c the engine's focus: its
\* return value, the focus it leaves and the calls it made. outcome says
\* whether the ids can be read: "ok", "fail" (the first reading fails) or
\* "fail_after" (the reading after the re-selection fails).
RestoreIfChanged(guard, c, outcome) ==
    IF ~guard.is_valid_ \/ outcome \notin {"ok", "fail_after"}
    THEN [ret |-> FALSE, cur |-> c, calls |-> << >>]
    ELSE Let(IF ProcessSystemId(c.proc) # guard.original_process_id_
             THEN SetCurrentProcessId(c, guard.original_process_id_)
             ELSE c,
         LAMBDA c1 :
           Let(IF ThreadSystemId(c.proc, c.thread) # guard.original_thread_id_
               THEN SetCurrentThreadId(c1, guard.original_thread_id_)
               ELSE c1,
           LAMBDA c2 :
             [ret |-> /\ outcome = "ok"
                      /\ ProcessSystemId(c2.proc) = guard.original_process_id_
                      /\ ThreadSystemId(c2.proc, c2.thread)
                           = guard.original_thread_id_,
              cur |-> c2,
              calls |-> RestoreCalls(guard, c)]))

\* A step command (SetExecutionStatus(DEBUG_STATUS_STEP_*) or the command
\* "gu") starts the target when the engine accepts it: the target must be
\* suspended.
StepAccepted(st, outcome) == st = "break" /\ outcome = "ok"
StatusAfterStep(st, outcome) == IF StepAccepted(st, outcome) THEN "step" ELSE st

\* Positions of an activation at which it is blocked in a wait.
WaitPcs == { "exit_wait", "scan_wait" }

\* StepOutOfHook(&hook_instance) up to its first WaitForEvent, for the
\* seq-th match of a notification with instruction pointer ip: the locals
\* of the stepping functions, counters of what they have issued and, in hit,
\* the engine's focus when the function was entered. issued_in is the
\* execution status in which the latest query or step command was issued.
StepOutOfHook(reg, ip, k, seq, c, st, H) ==
    [frame |->
       [ip |-> ip, k |-> k, seq |-> seq, pc |-> "exit_wait", i |-> 0,
        hit |-> c, issued_in |-> st,
        debug_context_guard |-> DebugContextGuard(c, OutcomeAt(H.F, "guard")),
        num_steps |-> NumStepsToHookExit(reg[k].hook_definition),
        exits |-> 1, scans |-> 0, cmds |-> 0,
        anomaly |-> ~StepAccepted(st, OutcomeAt(H.F, "step")),
        result |-> "", cmd |-> "step_over",
        call_stack |-> << >>, file_name |-> << >>],
     status |-> StatusAfterStep(st, OutcomeAt(H.F, "step"))]

\* The body of the loop of StepThroughHandleValidatedMessage for the
\* iteration fr.i, up to its wait or its break; ub is what the read of
\* call_stack[0] yields when the vector is empty.
ScanIteration(fr, st, s, H, ub) ==
    Let([file_name |-> GetCurrentSourceInfo(st, s, OutcomeAt(H.F, "src")),
         call_stack |->
            GetTopOfCallStack(
               KcOutput(s.stack, kMaxFrameDepth,
                        st = "break" /\ OutcomeAt(H.F, "kc") = "ok"))],
    LAMBDA o :
      IF o.call_stack = << >> /\ ub = "crash"
      THEN [frame |-> [fr EXCEPT !.pc = "crashed", !.result = "crashed",
                                 !.scans = @ + 1, !.cmd = "none",
                                 !.issued_in = st,
                                 !.call_stack = o.call_stack,
                                 !.file_name = o.file_name],
            status |-> st]
      ELSE Let(ScanDecision(TopOfStack(o.call_stack, ub), o.file_name,
                            FrameDepth(o.call_stack)),
           LAMBDA d :
             IF d \in {"Found", "Aborted"}
             THEN [frame |-> [fr EXCEPT !.pc = "done", !.result = d,
                                        !.scans = @ + 1, !.cmd = "none",
                                        !.issued_in = st,
                                        !.call_stack = o.call_stack,
                                        !.file_name = o.file_name],
                   status |-> st]
             ELSE [frame |->
                     [fr EXCEPT !.pc = "scan_wait", !.scans = @ + 1,
                                !.cmds = @ + 1, !.cmd = d,
                                !.issued_in = st,
                                !.anomaly =
                                   @ \/ ~StepAccepted(st, OutcomeAt(H.F, "step")),
                                !.call_stack = o.call_stack,
                                !.file_name = o.file_name],
                   status |-> StatusAfterStep(st, OutcomeAt(H.F, "step"))]))

\* What the activation fr does after a wait and its RestoreIfChanged have
\* returned ret, up to its next wait: the next exit step, or the first or
\* the next Scanning iteration, or the end of the loop.
AfterWait(fr, ret, c, st, s, H, ub) ==
    IF fr.pc = "exit_wait"
    THEN IF fr.i + 1 < fr.num_steps
         THEN [frame |-> [fr EXCEPT !.i = @ + 1, !.exits = @ + 1,
                             !.issued_in = st,
                             !.anomaly = @ \/ ~ret
                                \/ ~StepAccepted(st, OutcomeAt(H.F, "step"))],
               status |-> StatusAfterStep(st, OutcomeAt(H.F, "step"))]
         ELSE ScanIteration(
                 [fr EXCEPT !.i = 0, !.anomaly = @ \/ ~ret,
                            !.debug_context_guard =
                               DebugContextGuard(c, OutcomeAt(H.F, "guard"))],
                 st, s, H, ub)
    ELSE IF fr.i + 1 < kMaxSteps
         THEN ScanIteration([fr EXCEPT !.i = @ + 1, !.anomaly = @ \/ ~ret],
                            st, s, H, ub)
         ELSE [frame |-> [fr EXCEPT !.pc = "done", !.result = "Expired",
                                    !.anomaly = @ \/ ~ret],
               status |-> st]

\* The activation on top of the stack.
Top == frames[Len(frames)]

\* Host failures of the stepping calls.
StepFaultSites == { "ip", "guard", "step", "wait", "ids", "src", "kc" }
StepChoices == { NoFaults } \cup { [F |-> {<< f, "fail" >>}] : f \in StepFaultSites }

\* Threads the engine may report an event for.
Foci == { [proc |-> 0, thread |-> 0], [proc |-> 0, thread |-> 1],
          [proc |-> 1, thread |-> 0] }

\* WaitForEvent (or the wait of ExecuteCommand) of the activation fr
\* returns, and fr runs to its next wait or to the end of its loop. When
\* the target was executing a step and the wait succeeds, the target has
\* stopped: the engine's focus is the event's thread f, reported at s.
\* Otherwise the focus c and the site s0 are as they were.
WaitOutcome(fr, c, st0, s0, f, s, H, ub) ==
    Let(st0 = "step" /\ OutcomeAt(H.F, "wait") = "ok",
    LAMBDA stopped :
      Let(RestoreIfChanged(fr.debug_context_guard,
                           IF stopped THEN f ELSE c, OutcomeAt(H.F, "ids")),
      LAMBDA r :
        Let(AfterWait(fr, r.ret, r.cur, IF stopped THEN "break" ELSE st0,
                      IF stopped THEN s ELSE s0, H, ub),
        LAMBDA n :
          [frame |-> n.frame, status |-> n.status, cur |-> r.cur,
           site |-> IF stopped THEN s ELSE s0])))

\* 1 when a stop is reported for another thread than the engine's current
\* one. Such a stop counts as a host irregularity, as a failed call does.
Drift(c, f) == IF f # c THEN 1 ELSE 0

\* The wait of the top activation returns; a stop is at an address that is
\* no breakpoint of the registry.
WaitReturn(FocusSet, SiteSet, Choices) ==
    /\ frames # << >>
    /\ Top.pc \in WaitPcs
    /\ \E H \in Choices :
        /\ nfaults + Cardinality(H.F) <= MaxFaults
        /\ \E f \in IF status = "step" /\ OutcomeAt(H.F, "wait") = "ok"
                    THEN FocusSet ELSE {cur},
              s \in IF status = "step" /\ OutcomeAt(H.F, "wait") = "ok"
                    THEN SiteSet ELSE {site} :
            /\ nfaults + Cardinality(H.F) + Drift(cur, f) <= MaxFaults
            /\ \E n0 \in { WaitOutcome(Top, cur, status, site, f, s, H,
                                       "garbage") } :
                /\ H.F # {} =>
                     n0 # WaitOutcome(Top, cur, status, site, f, s, NoFaults,
                                      "garbage")
                /\ \E ub \in IF n0.frame.scans > Top.scans
                                /\ n0.frame.call_stack = << >>
                             THEN EmptyStackReads ELSE { "garbage" } :
                   \E n \in { IF ub = "garbage" THEN n0
                              ELSE WaitOutcome(Top, cur, status, site, f, s, H,
                                               ub) } :
                     /\ frames' = [frames EXCEPT ![Len(frames)] = n.frame]
                     /\ status' = n.status
                     /\ cur' = n.cur
                     /\ site' = n.site
                     /\ nfaults' = nfaults + Cardinality(H.F) + Drift(cur, f)
    /\ UNCHANGED << g_modules, g_event_callbacks, g_hook_instances, mem, alloc,
                    cpu, hostlog, binary >>

\* The registry loop without its comparison of current_ip.
FirstHit_AnyIp(reg, current_ip, k) == IF k > Len(reg) THEN 0 ELSE k

RECURSIVE FirstHit(_, _, _)
\* "for (const auto& hook_instance : g_hook_instances)" from element k on:
\* the first element whose int3_address is current_ip, 0 if there is none.
FirstHit(reg, current_ip, k) ==
    IF k > Len(reg) THEN 0
    ELSE IF current_ip = reg[k].int3_address THEN k
    ELSE FirstHit(reg, current_ip, k + 1)

\* What a ChangeEngineState activation was called with (flags and
\* argument, in the field module), the host calls it made before its
\* first wait or its return, and how it went on.
NotifyLog(flags, argument, e, calls, outcome) ==
    [op |-> "ChangeEngineState", proc |-> e, module |-> << flags, argument >>,
     outcome |-> outcome, calls |-> calls]

HandlerLog(outcome) ==
    [op |-> "ChangeEngineState", proc |-> cur.proc, module |-> << >>,
     outcome |-> outcome, calls |-> << >>]

\* The top activation's StepThroughHandleValidatedMessage has returned:
\* the loop of ChangeEngineState goes on to the next element of the
\* registry, and the handler returns when there is none left that matches.
HandlerContinue(Choices) ==
    /\ frames # << >>
    /\ Top.pc = "done"
    /\ \E k \in { FirstHit(g_hook_instances, Top.ip, Top.k + 1) } :
        IF k = 0
        THEN /\ frames' = SubSeq(frames, 1, Len(frames) - 1)
             /\ hostlog' = HandlerLog(Top.result)
             /\ UNCHANGED << status, nfaults >>
        ELSE \E H \in Choices :
             \E a \in { StepOutOfHook(g_hook_instances, Top.ip, k, Top.seq + 1,
                                      cur, status, H) } :
               /\ nfaults + Cardinality(H.F) <= MaxFaults
               /\ H.F # {} =>
                    a # StepOutOfHook(g_hook_instances, Top.ip, k, Top.seq + 1,
                                      cur, status, NoFaults)
               /\ frames' = [frames EXCEPT ![Len(frames)] = a.frame]
               /\ status' = a.status
               /\ nfaults' = nfaults + Cardinality(H.F)
               /\ UNCHANGED hostlog
    /\ UNCHANGED << g_modules, g_event_callbacks, g_hook_instances, mem, alloc,
                    cur, cpu, binary, site >>

\* An address of the target function's module that is no breakpoint of a
\* trampoline.
OtherIp == TargetAddressOf(<< "chrome" >>) + original_code_size_

\* Instruction pointers of the events the host reports.
IpChoices(reg) == { reg[k].int3_address : k \in 1..Len(reg) } \cup { OtherIp }

\* The host delivers ChangeEngineState(DEBUG_CES_EXECUTION_STATUS,
\* DEBUG_STATUS_BREAK): the target has stopped with an event of thread f
\* at current_ip, reported at s. With depth 1 the notification arrives
\* while no activation is in progress, with a larger depth also while the
\* top activation is blocked in its wait.
ChangeEngineState_Break(depth, f, current_ip, s, H) ==
    /\ g_event_callbacks
    /\ status # "break"
    /\ \/ frames = << >>
       \/ /\ frames # << >>
          /\ Len(frames) < depth
          /\ Top.pc \in WaitPcs
    /\ nfaults + Cardinality(H.F) <= MaxFaults
    /\ cur' = f
    /\ site' = s
    /\ nfaults' = nfaults + Cardinality(H.F)
    /\ \E k \in { IF g_hook_instances = << >> \/ OutcomeAt(H.F, "ip") # "ok"
                  THEN 0
                  ELSE FirstHit(g_hook_instances, current_ip, 1) } :
        IF k = 0
        THEN /\ H.F # {} => FirstHit(g_hook_instances, current_ip, 1) # 0
             /\ status' = "break"
             /\ hostlog' =
                  NotifyLog("DEBUG_CES_EXECUTION_STATUS", "DEBUG_STATUS_BREAK",
                     f.proc,
                     IF g_hook_instances = << >> THEN << >>
                     ELSE << LogEntry("GetInstructionOffset", current_ip, 0, 0,
                                      OutcomeAt(H.F, "ip") = "ok") >>,
                     "ignored")
             /\ UNCHANGED frames
        ELSE \E a \in { StepOutOfHook(g_hook_instances, current_ip, k, 1, f,
                                      "break", H) } :
               /\ H.F # {} =>
                    a # StepOutOfHook(g_hook_instances, current_ip, k, 1, f,
                                      "break", NoFaults)
               /\ frames' = Append(frames, a.frame)
               /\ status' = a.status
               /\ hostlog' =
                    NotifyLog("DEBUG_CES_EXECUTION_STATUS", "DEBUG_STATUS_BREAK",
                       f.proc,
                       << LogEntry("GetInstructionOffset", current_ip, 0, 0, TRUE),
                          LogEntry("SetExecutionStatus", 0, 0, 0,
                                   a.status = "step") >>,
                       "stepping")
    /\ UNCHANGED << g_modules, g_event_callbacks, g_hook_instances, mem, alloc,
                    cpu, binary >>

\* The host delivers ChangeEngineState(DEBUG_CES_EXECUTION_STATUS,
\* DEBUG_STATUS_GO): the investigator has resumed the target.
ChangeEngineState_Go ==
    /\ g_event_callbacks
    /\ frames = << >>
    /\ status = "break"
    /\ status' = "go"
    /\ hostlog' = NotifyLog("DEBUG_CES_EXECUTION_STATUS", "DEBUG_STATUS_GO",
                            cur.proc, << >>, "ignored")
    /\ UNCHANGED << g_modules, g_event_callbacks, g_hook_instances, mem, alloc,
                    cur, frames, cpu, binary, nfaults, site >>

\* The host delivers ChangeEngineState(DEBUG_CES_CURRENT_THREAD, f): the
\* investigator has selected another thread of the suspended target.
ChangeEngineState_Other(f) ==
    /\ g_event_callbacks
    /\ frames = << >>
    /\ status = "break"
    /\ f # cur
    /\ cur' = f
    /\ hostlog' = NotifyLog("DEBUG_CES_CURRENT_THREAD", "", f.proc, << >>,
                            "ignored")
    /\ UNCHANGED << g_modules, g_event_callbacks, g_hook_instances, mem, alloc,
                    status, frames, cpu, binary, nfaults, site >>

\* chrome.dll as the host maps it.
StepImage(shape) ==
    PokeBytes(<< >>, TargetAddressOf(<< "chrome" >>), EntryImage(shape))

\* The state in which chrome.dll is watched and has been loaded and
\* patched in process 0 and, when both holds, in process 1 as well.
Patched(shape, both) ==
      \E r0 \in { PatchModule(<< >>, StepImage(shape), {}, 0,
                              << "chrome", DotDll >>, NoFaults) } :
      \E r1 \in { IF both
                  THEN PatchModule(r0.reg, StepImage(shape), {}, 1,
                                   << "chrome", DotDll >>, NoFaults)
                  ELSE PatchResult(r0.reg, << >>, {}, << >>, "none") } :
        /\ g_modules = << << "chrome", DotDll >> >>
        /\ g_event_callbacks = TRUE
        /\ g_hook_instances = r1.reg
        /\ mem = [e \in Procs |-> IF e = 0 THEN r0.mem ELSE r1.mem]
        /\ alloc = [e \in Procs |-> IF e = 0 THEN r0.alloc ELSE r1.alloc]
        /\ cur = [proc |-> IF both THEN 1 ELSE 0, thread |-> 0]
        /\ status = "break"
        /\ frames = << >>
        /\ cpu = IdleCpu
        /\ hostlog = [op |-> "LoadModule",
                      proc |-> IF both THEN 1 ELSE 0,
                      module |-> << "chrome", DotDll >>,
                      outcome |-> IF both THEN r1.outcome ELSE r0.outcome,
                      calls |-> IF both THEN r1.log ELSE r0.log]
        /\ binary = shape
        /\ nfaults = 0
        /\ site = NoSite
        /\ g_commands = << >>
        /\ g_break_event_handler = FALSE
        /\ client_callbacks = FALSE

\* One process has loaded chrome.dll.
InitStep == \E shape \in EntryShapes : Patched(shape, FALSE)

Break ==
    /\ \E f \in Foci, s \in Sites, H \in StepChoices :
         \E ip \in IpChoices(g_hook_instances) :
           ChangeEngineState_Break(1, f, ip, s, H)
    /\ UNCHANGED breakvars

Go ==
    /\ ChangeEngineState_Go
    /\ UNCHANGED breakvars

Select ==
    /\ \E f \in Foci : ChangeEngineState_Other(f)
    /\ UNCHANGED breakvars

Wait ==
    /\ WaitReturn(Foci, Sites, StepChoices)
    /\ UNCHANGED breakvars

Continue ==
    /\ HandlerContinue(StepChoices)
    /\ UNCHANGED breakvars

NextStep == Break \/ Go \/ Select \/ Wait \/ Continue

SpecStep == InitStep /\ [][NextStep]_vars

\* The waits that return in SpecStepFair: the stops are those of the
\* thread being stepped, at a site of each action of the Scanning loop, and
\* the host may fail a wait, a step command, the stack query or the reads
\* of RestoreIfChanged.
FairSites ==
    { Site(<< SymHandleValidatedMessage, SymOther >>, FileCc),
      Site(<< SymOther, SymHandleValidatedMessage >>, FileCc),
      Site(<< SymTryAccept, SymOther, SymHandleValidatedMessage >>, FileMojomCc),
      Site(<< SymDispatchAccept, SymStubAccept, SymHandleValidatedMessage >>,
           FileMojomCc),
      Site(<< SymOther, SymOther, SymOther, SymOther, SymOther, SymOther,
              SymHandleValidatedMessage >>, FileCc) }

FairChoices ==
    { NoFaults } \cup { [F |-> {<< f, "fail" >>}] : f \in {"wait", "step", "kc", "ids"} }

BreakFair ==
    /\ \E f \in Foci, s \in FairSites :
         \E ip \in IpChoices(g_hook_instances) :
           ChangeEngineState_Break(1, f, ip, s, NoFaults)
    /\ UNCHANGED breakvars

WaitFair ==
    /\ WaitReturn({ cur }, FairSites, FairChoices)
    /\ UNCHANGED breakvars

ContinueFair ==
    /\ HandlerContinue({ NoFaults })
    /\ UNCHANGED breakvars

NextStepFair == BreakFair \/ Go \/ WaitFair \/ ContinueFair

\* Every wait of the stepping functions returns, and the handler returns
\* when its loop is done.
SpecStepFair ==
    InitStep /\ [][NextStepFair]_vars /\ WF_vars(WaitFair) /\ WF_vars(ContinueFair)

---------------------------------------------------------------------------
(* Notifications that arrive during a wait (specification SpecNest).       *)

\* Activations of ChangeEngineState on the debugger thread's stack.
MaxNest == 2

\* The site at which the Scanning loop ends in its first iteration.
NestSites ==
    { Site(<< SymDispatchAccept, SymStubAccept, SymHandleValidatedMessage >>,
           FileMojomCc) }

\* A stop is notified while no activation is in progress or from within
\* the wait of one: a thread has reached an address that may be a
\* breakpoint of the registry.
BreakNest ==
    /\ \E f \in Foci, s \in NestSites :
         \E ip \in IpChoices(g_hook_instances) :
           ChangeEngineState_Break(MaxNest, f, ip, s, NoFaults)
    /\ UNCHANGED breakvars

WaitNest ==
    /\ WaitReturn(Foci, NestSites, { NoFaults })
    /\ UNCHANGED breakvars

ContinueNest ==
    /\ HandlerContinue({ NoFaults })
    /\ UNCHANGED breakvars

NextNest == BreakNest \/ Go \/ WaitNest \/ ContinueNest

\* Two processes have loaded chrome.dll.
InitNest == \E shape \in CpuShapes : Patched(shape, TRUE)

SpecNest == InitNest /\ [][NextNest]_vars

---------------------------------------------------------------------------
(* Properties of the patch plane (specification Spec).                     *)

\* Module names as the LoadModule callback passes them to PatchModule.
PatchNames == { LoadedName(n) : n \in LoadNames }

\* C2: once a HookInstance is registered for (p, m), a PatchModule
\* invocation for (p, m) makes no host call (no scratch allocation, no
\* write) and leaves the registry, the memory and the scratch pages of the
\* process as they are, whatever the host does.
C2_Idempotent ==
    \A e \in Procs, n \in PatchNames, H \in HostChoices :
        (\E i \in 1..Len(g_hook_instances) :
            /\ g_hook_instances[i].process_id = ProcessSystemId(e)
            /\ g_hook_instances[i].module_name = n)
        => LET r == PatchModule(g_hook_instances, mem[e], alloc[e], e, n, H)
           IN  /\ r.reg = g_hook_instances
               /\ r.mem = mem[e]
               /\ r.alloc = alloc[e]
               /\ \A k \in 1..Len(r.log) : r.log[k].op \notin {"dvalloc", "write"}

\* A load event for a registered (p, m) has been handled.
C2_Witness ==
    /\ hostlog.op = "LoadModule"
    /\ hostlog.outcome = "already_installed"
    /\ \E i \in 1..Len(g_hook_instances) :
          /\ g_hook_instances[i].process_id = ProcessSystemId(hostlog.proc)
          /\ g_hook_instances[i].module_name = hostlog.module

\* C3: a PatchModule whose scratch allocation failed, or whose write of the
\* trampoline or of the entry patch failed or was cut short, registers no
\* HookInstance.
C3_FailedAttemptNotRegistered ==
    (/\ hostlog.op = "LoadModule"
     /\ \E k \in 1..Len(hostlog.calls) :
           /\ hostlog.calls[k].op \in {"dvalloc", "write"}
           /\ (~hostlog.calls[k].ok \/ hostlog.calls[k].n < hostlog.calls[k].req))
    => hostlog.outcome # "installed"

\* C4: the registry holds at most one HookInstance for each
\* (process id, module name) pair.
C4_OnePerKey ==
    \A i, j \in 1..Len(g_hook_instances) :
        (/\ g_hook_instances[i].process_id = g_hook_instances[j].process_id
         /\ g_hook_instances[i].module_name = g_hook_instances[j].module_name)
        => i = j

\* Every (process, module) pair of the model is registered, and a further
\* load event for one of them has been declined.
C4_Witness ==
    /\ Len(g_hook_instances) = Cardinality(Procs) * Cardinality(PatchNames)
    /\ hostlog.outcome = "already_installed"

\* C5: no two registered HookInstances have the same int3_address.
C5_UniqueInt3 ==
    \A i, j \in 1..Len(g_hook_instances) :
        g_hook_instances[i].int3_address = g_hook_instances[j].int3_address
        => i = j

---------------------------------------------------------------------------
(* Properties of the trampoline (specification SpecCpu).                   *)

\* The condition of the claim on the thread c in memory m: the message
\* pointer in rdx is non-null, the pointer at message+0x18 is non-null and
\* bit 29 of the 32-bit flags at data+0x10 is set.
FlaggedMessage(c, m) ==
    /\ c.regs["rdx"] # Zero8
    /\ PeekBytes(m, FromLE(c.regs["rdx"]) + 24, 8) # Zero8
    /\ (PeekIn(m, FromLE(PeekBytes(m, FromLE(c.regs["rdx"]) + 24, 8)) + 16 + 3)
          \div 32) % 2 = 1

\* C1: for both hook variants a thread in the trampoline's check code
\* (offsets 0 .. 30) moves forward without a fault and leaves it to the
\* int3 at offset 31 when the message is flagged and to the register
\* restore at offset 0x26 (38) otherwise; the int3 is executed only at
\* offset 31 and only for a flagged message.
C1_BreakIffFlagged ==
    [][ \A k \in 1..Len(g_hook_instances) :
          (cpu.st = "run" /\ cpu' # cpu) =>
            /\ (cpu.rip >= g_hook_instances[k].hook_address
                /\ cpu.rip <= g_hook_instances[k].hook_address + 30) =>
                  /\ cpu'.st = "run"
                  /\ cpu'.rip > cpu.rip
                  /\ cpu'.rip > g_hook_instances[k].hook_address + 30 =>
                        cpu'.rip =
                          IF FlaggedMessage(cpu, mem[cpu.proc])
                          THEN g_hook_instances[k].hook_address + 31
                          ELSE g_hook_instances[k].hook_address + 38
            /\ cpu.rip = g_hook_instances[k].hook_address + 31 =>
                  cpu'.st = "int3"
            /\ cpu'.st = "int3" =>
                  /\ cpu.rip = g_hook_instances[k].hook_address + 31
                  /\ FlaggedMessage(cpu, mem[cpu.proc]) ]_vars

\* The thread has executed the int3 of the second variant's trampoline.
C1_Witness ==
    /\ cpu.st = "int3"
    /\ \E k \in 1..Len(g_hook_instances) :
          /\ cpu.rip = g_hook_instances[k].int3_address
          /\ g_hook_instances[k].hook_definition = "HookReleaseWithConfigNoOptimize"
    /\ FlaggedMessage(cpu, mem[cpu.proc])

---------------------------------------------------------------------------
(* Properties of the stepping sequence (specifications SpecStep,           *)
(* SpecStepFair and SpecNest).                                             *)

\* The result or the step command of the activation's last Scanning
\* iteration.
ActionTaken(fr) ==
    IF fr.pc = "crashed" THEN "none"
    ELSE IF fr.result \in {"Found", "Aborted"} THEN fr.result
    ELSE IF fr.cmd = "gu" THEN "SteppingOut"
    ELSE IF fr.cmd = "step_over" THEN "SteppingOver"
    ELSE "SteppingInto"

\* The frames above the first frame of the inspected stack whose symbol
\* ends with the interception symbol, "::Accept" or
\* "::AcceptWithResponder"; all inspected frames when there is none.
FramesAboveAnchor(stack) ==
    IF \E j \in 1..Len(stack) : IsAnchorSymbol(stack[j])
    THEN (CHOOSE j \in 1..Len(stack) :
             /\ IsAnchorSymbol(stack[j])
             /\ \A h \in 1..(j - 1) : ~IsAnchorSymbol(stack[h])) - 1
    ELSE Len(stack)

\* The action the depth rule gives for an inspected stack and a file name.
DepthRule(stack, file) ==
    IF /\ stack # << >>
       /\ (EndsWith(stack[1], << "::Accept" >>)
           \/ EndsWith(stack[1], << "::AcceptWithResponder" >>))
       /\ EndsWith(file, << ".mojom.cc" >>)
    THEN "Found"
    ELSE IF FramesAboveAnchor(stack) = 6 THEN "Aborted"
    ELSE IF FramesAboveAnchor(stack) >= 2 THEN "SteppingOut"
    ELSE IF FramesAboveAnchor(stack) = 1 THEN "SteppingOver"
    ELSE "SteppingInto"

\* C6: after every Scanning iteration the action taken is the depth rule
\* applied to the call stack (at most 6 frames) and the source file the
\* iteration inspected: Found, Aborted, or the one step command issued.
C6_DepthRule ==
    (frames # << >> /\ Top.scans > 0) =>
        /\ Len(Top.call_stack) <= 6
        /\ ActionTaken(Top) = DepthRule(Top.call_stack, Top.file_name)

\* The exit step-overs of the hook variant of a registry element.
ExitStepsOf(inst) ==
    IF inst.hook_definition = "HookReleaseNoConfigChanges" THEN 21 ELSE 17

\* An activation is blocked in a wait of its stepping sequence.
InFlight == frames # << >> /\ Top.pc \in WaitPcs

\* C7: every stepping sequence (one StepOutOfHook followed by one
\* StepThroughHandleValidatedMessage) ends when every wait returns. It
\* issues the exit step-overs of its hook variant (21 or 17), all of them
\* before the first Scanning iteration, then runs at most 200 Scanning
\* iterations; the iteration that reaches Found or Aborted issues no step
\* command, every other one issues one, and nothing is issued after the
\* 200th.
C7_Terminates ==
    /\ [](frames # << >> =>
            /\ Top.exits >= 1
            /\ Top.exits <= ExitStepsOf(g_hook_instances[Top.k])
            /\ Top.scans > 0 =>
                  Top.exits = ExitStepsOf(g_hook_instances[Top.k])
            /\ Top.scans <= 200
            /\ Top.pc = "scan_wait" => Top.cmds = Top.scans
            /\ Top.result \in {"Found", "Aborted"} =>
                  Top.cmds = Top.scans - 1
            /\ Top.result = "Expired" =>
                  (Top.scans = 200 /\ Top.cmds = 200)
            /\ Top.pc = "done" =>
                  Top.result \in {"Found", "Aborted", "Expired"})
    /\ (InFlight ~> ~InFlight)

\* A sequence of the second hook variant has run its 17 exit step-overs
\* and 200 Scanning iterations and has given up.
C7_Witness ==
    /\ frames # << >>
    /\ Top.pc = "done"
    /\ Top.result = "Expired"
    /\ Top.exits = 17
    /\ Top.scans = 200
    /\ g_hook_instances[Top.k].hook_definition = "HookReleaseWithConfigNoOptimize"

\* C8: once a RestoreIfChanged of a stepping sequence has returned false
\* or one of its step commands has failed, the sequence issues no further
\* step command.
C8_AnomalyAborts ==
    [][ (/\ frames # << >>
         /\ Len(frames') = Len(frames)
         /\ frames'[Len(frames')].seq = Top.seq
         /\ Top.anomaly)
        => frames'[Len(frames')].exits + frames'[Len(frames')].cmds
              = Top.exits + Top.cmds ]_vars

\* C9: when the handler has returned from a stepping sequence, the target
\* is free-running if and only if the sequence did not end in Found.
C9_ResumeIffNotFound ==
    (/\ frames = << >>
     /\ hostlog.op = "ChangeEngineState"
     /\ hostlog.outcome \in {"Found", "Aborted", "Expired"})
    => (status = "go" <=> hostlog.outcome # "Found")

\* C10: at most one stepping sequence is in flight: no activation of the
\* handler starts a sequence while another one is blocked in a wait.
C10_OneInFlight == Len(frames) <= 1

---------------------------------------------------------------------------
(* Properties of the notification handler (specification SpecStep).        *)

\* Host calls that step the target, query its call stack or change the
\* engine's focus.
SteppingCalls ==
    { "SetExecutionStatus", "Execute", "SetCurrentProcessId",
      "SetCurrentThreadId" }

\* The notification logged in log is none the handler acts on with the
\* registry reg: it is no execution-status change to DEBUG_STATUS_BREAK,
\* or reg is empty, or the instruction pointer could not be read or equals
\* no int3_address of reg.
NotForUs(log, reg) ==
    \/ log.module # << "DEBUG_CES_EXECUTION_STATUS", "DEBUG_STATUS_BREAK" >>
    \/ reg = << >>
    \/ \A c \in 1..Len(log.calls) :
          log.calls[c].op = "GetInstructionOffset" =>
             \/ ~log.calls[c].ok
             \/ \A k \in 1..Len(reg) : reg[k].int3_address # log.calls[c].a

\* C11: a notification that is no execution-status change to suspended,
\* or whose instruction pointer equals no registered int3_address, cannot
\* be read or arrives with an empty registry, starts no stepping sequence
\* and makes no step command, no call-stack query and no focus change; the
\* execution status stays what the engine announced.
C11_IgnoresOthers ==
    [][ (/\ hostlog' # hostlog
         /\ hostlog'.op = "ChangeEngineState"
         /\ Len(hostlog'.module) = 2
         /\ NotForUs(hostlog', g_hook_instances))
        => /\ frames' = frames
           /\ \A c \in 1..Len(hostlog'.calls) :
                 hostlog'.calls[c].op \notin SteppingCalls
           /\ status' = IF hostlog'.module[2] = "DEBUG_STATUS_BREAK" THEN "break"
                        ELSE IF hostlog'.module[2] = "DEBUG_STATUS_GO" THEN "go"
                        ELSE status ]_vars

\* A suspension at an address that is no int3_address of the non-empty
\* registry has been notified.
C11_Witness ==
    /\ hostlog.op = "ChangeEngineState"
    /\ hostlog.module = << "DEBUG_CES_EXECUTION_STATUS", "DEBUG_STATUS_BREAK" >>
    /\ g_hook_instances # << >>
    /\ Len(hostlog.calls) = 1
    /\ hostlog.calls[1].ok
    /\ hostlog.calls[1].a = OtherIp
    /\ frames = << >>
    /\ status = "break"

---------------------------------------------------------------------------
(* Properties of the load handler and of the enable command                *)
(* (specification Spec).                                                   *)

\* The HookInstances of reg for process e and the module named n.
InstancesFor(reg, e, n) ==
    { i \in 1..Len(reg) :
         reg[i].process_id = ProcessSystemId(e) /\ reg[i].module_name = n }

\* The load event logged last was for a watched module whose entry code
\* is one a catalog signature matches; the handler did not fail to resolve
\* the symbol or to match a signature, and every host call it logged
\* succeeded in full.
GoodLoad ==
    /\ hostlog.op = "LoadModule"
    /\ IsWatched(g_modules, hostlog.module)
    /\ binary \in CpuShapes
    /\ hostlog.outcome \notin {"no_symbol", "no_signature"}
    /\ \A c \in 1..Len(hostlog.calls) :
          hostlog.calls[c].ok /\ hostlog.calls[c].n = hostlog.calls[c].req

\* C12 as stated: after the load event of a watched module at which the
\* symbol resolved, a signature matched and every memory operation
\* succeeded, the registry holds exactly one HookInstance for the current
\* process and the module.
C12_OneAfterLoad ==
    GoodLoad =>
        Cardinality(InstancesFor(g_hook_instances, hostlog.proc, hostlog.module)) = 1

\* C12 with the missing premise: the same, provided PatchModule could read
\* the id of the current process.
C12_OneAfterLoadWithPid ==
    (GoodLoad /\ hostlog.outcome # "no_process_id") =>
        Cardinality(InstancesFor(g_hook_instances, hostlog.proc, hostlog.module)) = 1

\* A load event has installed the hook of a watched module.
C12_Witness ==
    /\ GoodLoad
    /\ hostlog.outcome = "installed"
    /\ Cardinality(InstancesFor(g_hook_instances, hostlog.proc, hostlog.module)) = 1


---------------------------------------------------------------------------
(* The load handler's name matching (specification Spec).                  *)

\* Letter case folded, token by token.
FoldCase(tok) ==
    CASE tok = "Chrome" -> "chrome"
      [] tok = ".DLL"   -> ".dll"
      [] OTHER          -> tok

RECURSIVE StripExt(_)
\* A name without the extensions it ends with, in either letter case.
StripExt(name) ==
    IF name # << >> /\ name[Len(name)] \in ExtTokens
    THEN StripExt(SubSeq(name, 1, Len(name) - 1))
    ELSE name

\* The normalisation that ignores letter case and normalises the
\* extension.
Normalized(name) ==
    [i \in 1..Len(StripExt(name)) |-> FoldCase(StripExt(name)[i])] \o << DotDll >>

WatchedNormalized(modules, name) ==
    \E i \in 1..Len(modules) : Normalized(modules[i]) = Normalized(name)

\* C13: the load handler invokes PatchModule for a loaded module exactly
\* when the module's name equals a watched name after a normalisation
\* that ignores letter case and normalises the extension.
C13_PatchedIffWatchedNormalized ==
    hostlog.op = "LoadModule" =>
        ((hostlog.outcome # "not_watched")
            <=> WatchedNormalized(g_modules, hostlog.module))

\* The half of C13 that the handler keeps: no PatchModule for a module
\* whose normalised name is not watched.
C13_NeverUnwatched ==
    (hostlog.op = "LoadModule" /\ hostlog.outcome # "not_watched")
        => WatchedNormalized(g_modules, hostlog.module)

---------------------------------------------------------------------------
(* The enabling command (specification Spec).                              *)

\* The command has just run with these names.
Enabled(log, module_names) ==
    log.op = "EnableStepThroughMojo" /\ log.module = module_names

\* C14: the command run a second time in a row with the same names, the
\* host answering SetEventCallbacks as it did the first time, leaves the
\* stored collection of watched names and the registration of the event
\* callbacks as the first run left them.
C14_EnableIdempotent ==
    [][ \A a \in EnableArgs :
          (Enabled(hostlog, a) /\ Enabled(hostlog', a)
                /\ hostlog'.outcome = hostlog.outcome)
             => /\ g_modules' = g_modules
                /\ g_event_callbacks' = g_event_callbacks ]_vars

\* The entry of module stem in process e is mapped and holds the code as
\* compiled.
LoadedUnpatched(e, stem) ==
    /\ TargetAddressOf(stem) \in DOMAIN mem[e]
    /\ \A i \in 1..EntryLen :
          mem[e][TargetAddressOf(stem) + i - 1] = EntryImage(binary)[i]

\* C15: the command resolves no symbol, allocates no scratch memory,
\* writes no memory of the target and adds no HookInstance; a module
\* loaded before the command ran is as unpatched after it as before.
C15_EnablePatchesNothing ==
    [][ hostlog'.op = "EnableStepThroughMojo"
          => /\ g_hook_instances' = g_hook_instances
             /\ mem' = mem
             /\ alloc' = alloc
             /\ hostlog'.calls = << >>
             /\ \A e \in Procs, n \in LoadNames :
                   LoadedUnpatched(e, n) => LoadedUnpatched(e, n)' ]_vars

\* The command has just enabled a module that the command could have
\* patched: one loaded before, with a known entry shape and no instance.
C15_Witness ==
    /\ hostlog.op = "EnableStepThroughMojo"
    /\ hostlog.outcome = "S_OK"
    /\ binary \in CpuShapes
    /\ \E e \in Procs, n \in LoadNames :
          /\ LoadedUnpatched(e, n)
          /\ g_modules # << >>
          /\ g_modules[Len(g_modules)] = LoadedName(n)
          /\ InstancesFor(g_hook_instances, e, LoadedName(n)) = {}

---------------------------------------------------------------------------
(* DebugContextGuard on its own (specification SpecGuard): a guard is      *)
(* constructed, the engine's focus moves, the guard is asked to restore.   *)

GuardFoci == [proc : Procs, thread : Threads]

\* Whether the host lets the guard read the ids.
GuardReads == {"ok", "fail", "fail_after"}

\* utils::DebugContextGuard guard(&g_debug), with the ids readable or not.
GuardConstruct(outcome) ==
    /\ outcome \in {"ok", "fail"}
    /\ frames' = << [debug_context_guard |-> DebugContextGuard(cur, outcome)] >>
    /\ hostlog' = [NoLog EXCEPT !.op = "DebugContextGuard", !.outcome = outcome]
    /\ UNCHANGED << g_modules, g_event_callbacks, g_hook_instances, mem, alloc,
                    cur, status, cpu, binary, nfaults, site >>

\* An event of another thread or process, or a command of the user, moves
\* the engine's focus to f.
GuardSelect(f) ==
    /\ f # cur
    /\ cur' = f
    /\ UNCHANGED << g_modules, g_event_callbacks, g_hook_instances, mem, alloc,
                    status, frames, cpu, hostlog, binary, nfaults, site >>

\* guard.RestoreIfChanged(): the log keeps the focus the call found, the
\* calls it made, the focus it left and what it returned.
GuardRestore(outcome) ==
    /\ frames # << >>
    /\ \E r \in { RestoreIfChanged(frames[1].debug_context_guard, cur, outcome) } :
          /\ cur' = r.cur
          /\ hostlog' = [op |-> "RestoreIfChanged", proc |-> cur.proc,
                         module |-> << >>, outcome |-> outcome,
                         calls |-> r.calls, found |-> cur, left |-> r.cur,
                         ret |-> r.ret]
    /\ UNCHANGED << g_modules, g_event_callbacks, g_hook_instances, mem, alloc,
                    status, frames, cpu, binary, nfaults, site >>

Construct ==
    /\ \E o \in GuardReads : GuardConstruct(o)
    /\ UNCHANGED breakvars

Refocus ==
    /\ \E f \in GuardFoci : GuardSelect(f)
    /\ UNCHANGED breakvars

Restore ==
    /\ \E o \in GuardReads : GuardRestore(o)
    /\ UNCHANGED breakvars

NextGuard == Construct \/ Refocus \/ Restore

InitGuard == Init /\ binary = original_code_

SpecGuard == InitGuard /\ [][NextGuard]_vars

\* The guard of the specification SpecGuard.
TheGuard == frames[1].debug_context_guard

\* The ids of focus c are the ones guard g captured.
SameIdentity(g, c) ==
    /\ ProcessSystemId(c.proc) = g.original_process_id_
    /\ ThreadSystemId(c.proc, c.thread) = g.original_thread_id_

\* A RestoreIfChanged has just run on a valid guard and read the ids.
Restored(log) ==
    /\ log.op = "RestoreIfChanged"
    /\ log.outcome # "fail"
    /\ TheGuard.is_valid_

\* C16: a RestoreIfChanged that finds the process id or the thread id
\* changed calls, in this order, one process re-select, a wait for the
\* suspended state, one thread re-select and a wait for the suspended
\* state, whichever of the two ids has changed.
C16_BothReselects ==
    (Restored(hostlog) /\ ~SameIdentity(TheGuard, hostlog.found))
        => hostlog.calls = << "SetCurrentProcessId", "WaitForBreakStatus",
                              "SetCurrentThreadId", "WaitForBreakStatus" >>

\* C17: RestoreIfChanged returns true only if the guard is valid, the ids
\* could be read and, when it returns, the current process id and thread
\* id are the captured ones; it returns false when the ids still differ
\* after the re-selection, when the guard could not read them at its
\* construction and when the call cannot read them.
C17_TrueOnlyIfRestored ==
    hostlog.op = "RestoreIfChanged" =>
        /\ hostlog.ret =>
              /\ TheGuard.is_valid_
              /\ hostlog.outcome = "ok"
              /\ SameIdentity(TheGuard, hostlog.left)
        /\ (\/ ~TheGuard.is_valid_
            \/ hostlog.outcome \in {"fail", "fail_after"}
            \/ ~SameIdentity(TheGuard, hostlog.left)) => ~hostlog.ret

\* A call has returned true.
C17_Witness ==
    /\ hostlog.op = "RestoreIfChanged"
    /\ hostlog.ret
    /\ SameIdentity(TheGuard, hostlog.left)

\* C18 as stated: a RestoreIfChanged that finds the captured process id
\* and thread id calls no re-select and no wait, leaves the focus as it
\* is and returns true.
C18_NoOpWhenUnchanged ==
    (Restored(hostlog) /\ SameIdentity(TheGuard, hostlog.found))
        => /\ hostlog.calls = << >>
           /\ hostlog.left = hostlog.found
           /\ hostlog.ret

\* C18 with the premise that the ids can be read again after the
\* comparison: then the call makes no re-select and no wait, leaves the
\* focus as it is and returns true.
C18_NoOpWhenUnchangedAndReadable ==
    (Restored(hostlog) /\ hostlog.outcome = "ok"
            /\ SameIdentity(TheGuard, hostlog.found))
        => /\ hostlog.calls = << >>
           /\ hostlog.left = hostlog.found
           /\ hostlog.ret

\* A call has found the captured ids and could read them twice.
C18_Witness ==
    /\ Restored(hostlog)
    /\ hostlog.outcome = "ok"
    /\ SameIdentity(TheGuard, hostlog.found)
    /\ hostlog.calls = << >>

---------------------------------------------------------------------------
(* CheckSignature on its own (specification SpecSig): the seventeen bytes  *)
(* at the target address are those of a known build with up to MaxFlips    *)
(* bytes changed, and each variant's CheckSignature is applied to them.    *)

\* The number of positions at which two byte sequences differ.
Distance(a, b) == Cardinality({ i \in 1..Len(a) : a[i] # b[i] })

\* Two other values for a byte: its lowest and its highest bit changed.
FlipValues(b) == { (b + 1) % 256, (b + 128) % 256 }

\* Another build: byte i of the entry code becomes v, one of the two
\* other values for that byte of a known build.
SigFlip(i, v) ==
    /\ \E shape \in CpuShapes :
          /\ v \in FlipValues(shape[i])
          /\ Distance([binary EXCEPT ![i] = v], shape) <= MaxFlips
    /\ binary' = [binary EXCEPT ![i] = v]
    /\ hostlog' = NoLog
    /\ UNCHANGED << g_modules, g_event_callbacks, g_hook_instances, mem, alloc,
                    cur, status, frames, cpu, nfaults, site >>

\* hook_def->CheckSignature(target_func) on the entry code as it is, the
\* host answering the ReadVirtual as outcome says.
SigCheck(def, outcome) ==
    /\ hostlog' =
          [NoLog EXCEPT
             !.op = "CheckSignature",
             !.module = << def >>,
             !.outcome = outcome,
             !.calls =
                << CheckSignature(def,
                      PokeBytes(<< >>, TargetAddressOf(<< "chrome" >>), binary),
                      {}, TargetAddressOf(<< "chrome" >>),
                      IF outcome = "ok" THEN {}
                      ELSE { << "sigA", outcome >>, << "sigB", outcome >> }) >>]
    /\ UNCHANGED << g_modules, g_event_callbacks, g_hook_instances, mem, alloc,
                    cur, status, frames, cpu, binary, nfaults, site >>

Flip ==
    /\ \E i \in 1..original_code_size_, v \in Byte : SigFlip(i, v)
    /\ UNCHANGED breakvars

Check ==
    /\ \E d \in 1..Len(g_hook_definitions), o \in {"ok", "fail", "short"} :
           SigCheck(g_hook_definitions[d], o)
    /\ UNCHANGED breakvars

NextSig == Flip \/ Check

InitSig == Init /\ binary \in CpuShapes

SpecSig == InitSig /\ [][NextSig]_vars

\* The entry code each variant was written for.
GoldenPattern(def) ==
    IF def = "HookReleaseNoConfigChanges" THEN original_code_
    ELSE << 72, 129, 236, 120, 7, 0, 0, 72, 139, 5, 146, 184, 100, 13, 72, 49, 224 >>

\* The positions (from 1) each variant declares as wildcards: none for
\* the first, bytes 3-6 and 10-13 (from 0) for the second.
Wildcards(def) ==
    IF def = "HookReleaseNoConfigChanges" THEN {}
    ELSE (4..7) \cup (11..14)

MatchesOutsideWildcards(bytes, def) ==
    \A i \in (1..original_code_size_) \ Wildcards(def) :
        bytes[i] = GoldenPattern(def)[i]

\* C19: for each variant and each seventeen bytes read at the target
\* address, CheckSignature returns true exactly when the bytes equal the
\* variant's pattern at every position outside its wildcard region: a
\* changed byte outside the region makes it false, changed bytes inside
\* the region do not.
C19_SignatureIffPattern ==
    (hostlog.op = "CheckSignature" /\ hostlog.outcome = "ok")
        => (hostlog.calls[1]
               <=> MatchesOutsideWildcards(binary, hostlog.module[1]))

\* The second variant has accepted an entry code whose wildcard bytes
\* differ from its pattern.
C19_Witness ==
    /\ hostlog.op = "CheckSignature"
    /\ hostlog.outcome = "ok"
    /\ hostlog.module = << "HookReleaseWithConfigNoOptimize" >>
    /\ hostlog.calls = << TRUE >>
    /\ binary # GoldenPattern("HookReleaseWithConfigNoOptimize")

---------------------------------------------------------------------------
(* The trampoline's copy of the entry code (specification Spec).           *)

\* Offset (from 0) of "Execute original instructions" in both hook_code_.
OriginalSlotOffset == 42

\* The instance the latest PatchModule registered.
LastInstance == g_hook_instances[Len(g_hook_instances)]

\* The n bytes of process e's memory from address a.
BytesAt(e, a, n) == [i \in 1..n |-> PeekIn(mem[e], a + i - 1)]

\* A load event has just installed a hook: ApplyHook returned true.
JustInstalled ==
    /\ hostlog.op = "LoadModule"
    /\ hostlog.outcome = "installed"

\* Every host call of the latest handler succeeded and moved all its bytes.
AllCallsGood ==
    \A c \in 1..Len(hostlog.calls) :
        hostlog.calls[c].ok /\ hostlog.calls[c].n = hostlog.calls[c].req

\* The entry bytes a variant's trampoline holds as they were: all
\* seventeen in the first variant; in the second the seven of sub rsp,
\* the mov that follows being rewritten with an absolute address.
CopiedLen(def) ==
    IF def = "HookReleaseNoConfigChanges" THEN original_code_size_ ELSE 7

---------------------------------------------------------------------------
(* Detection misses of PatchModule (specification Spec).                   *)

\* The latest handler ran PatchModule up to the symbol lookup.
ReachedLookup(log) ==
    /\ log.op = "LoadModule"
    /\ log.outcome \notin {"not_watched", "no_process_id", "already_installed"}

\* The symbol was not resolved, or no signature of the catalog matched:
\* the entry code is of no known build, or PatchModule said so.
DetectionMiss(log) ==
    /\ ReachedLookup(log)
    /\ \/ \E c \in 1..Len(log.calls) : log.calls[c].op = "symbol" /\ ~log.calls[c].ok
       \/ binary \notin CpuShapes
       \/ log.outcome = "no_signature"

\* C21: when the symbol is not resolved or no signature matches, a failed
\* signature read included, PatchModule reports it and allocates no
\* scratch page, writes no memory of the target and leaves the registry
\* as it is; the handler stays registered for later load events.
C21_MissChangesNothing ==
    [][ DetectionMiss(hostlog')
          => /\ hostlog'.outcome \in {"no_symbol", "no_signature"}
             /\ g_hook_instances' = g_hook_instances
             /\ alloc' = alloc
             /\ \A e \in Procs : \A a \in DOMAIN mem[e] : mem'[e][a] = mem[e][a]
             /\ \A c \in 1..Len(hostlog'.calls) :
                   hostlog'.calls[c].op \notin {"dvalloc", "write"}
             /\ g_event_callbacks'
             /\ g_modules' = g_modules ]_vars

\* A miss has been handled while a hook of another process is registered.
C21_Witness ==
    /\ DetectionMiss(hostlog)
    /\ hostlog.outcome = "no_signature"
    /\ g_hook_instances # << >>
    /\ \A k \in 1..Len(g_hook_instances) :
          g_hook_instances[k].process_id # ProcessSystemId(hostlog.proc)

---------------------------------------------------------------------------
(* Host failures inside the load handler (specification Spec).             *)

\* C22: whatever host operation fails inside the module-load handler, the
\* scratch allocation and the parsing of its result included, the handler
\* returns to the host with its status: no exception leaves it and the
\* session goes on.
C22_HandlerReturns ==
    hostlog.op = "LoadModule"
        => hostlog.outcome # "exception" /\ status # "terminated"

---------------------------------------------------------------------------
(* Session teardown (specification SpecSession): the commands and load     *)
(* events of a session without host failures, and its end.                 *)

\* DebugExtensionUninitializeInternal: the event callbacks are removed and
\* released, the hook definitions deleted, the debug interfaces released.
\* Nothing touches g_modules or g_hook_instances. The session is over.
DebugExtensionUninitialize ==
    /\ status # "terminated"
    /\ frames = << >>
    /\ g_event_callbacks' = FALSE
    /\ status' = "terminated"
    /\ hostlog' = [NoLog EXCEPT !.op = "DebugExtensionUninitialize",
                                !.outcome = "S_OK"]
    /\ UNCHANGED << g_modules, g_hook_instances, mem, alloc, cur, frames, cpu,
                    binary, nfaults, site >>
    /\ UNCHANGED breakvars

EnableSession ==
    /\ \E a \in EnableArgs : EnableStepThroughMojo(a, TRUE)
    /\ UNCHANGED breakvars

LoadSession ==
    /\ \E e \in Procs, n \in LoadNames : LoadModule(e, n, NoFaults)
    /\ UNCHANGED breakvars

NextSession == EnableSession \/ LoadSession \/ DebugExtensionUninitialize

SpecSession == Init /\ [][NextSession]_vars

\* C23: after DebugExtensionUninitialize no module name is watched and no
\* HookInstance is in the registry.
C23_TeardownClears ==
    hostlog.op = "DebugExtensionUninitialize"
        => g_modules = << >> /\ g_hook_instances = << >>

---------------------------------------------------------------------------
(* The command !StepThroughMojo (specification SpecManual).                *)

\* The parameter names message_constructor_regex asks for, in its order.
RequiredParams ==
    << "name", "flags", "payload_size", "payload_interface_id_count",
       "create_message_flags", "handles", "estimated_payload_size" >>

\* A line of "kp": the function and the names of its parameters.
KpLine(fn, params) == [fn |-> fn, params |-> params]

\* The constructor the command looks for, the same with one more
\* parameter, one without "handles", the move constructor, and a function
\* of the generated proxy.
KpFull == KpLine("mojo::Message::Message", RequiredParams)
KpMore ==
    KpLine("mojo::Message::Message",
           << "name", "flags", "trace_nonce", "payload_size",
              "payload_interface_id_count", "create_message_flags", "handles",
              "estimated_payload_size" >>)
KpFewer ==
    KpLine("mojo::Message::Message",
           << "name", "flags", "payload_size", "payload_interface_id_count",
              "create_message_flags", "estimated_payload_size" >>)
KpMove == KpLine("mojo::Message::Message", << "other" >>)
KpProxy == KpLine("network::mojom::URLLoaderProxy::FollowRedirect", << "flags" >>)

\* GetTopOfCallStack returned no line.
KpNone == KpLine("", << >>)

RECURSIVE InOrderWithin(_, _)
\* Each name of req occurs in params as a whole word, in this order.
InOrderWithin(req, params) ==
    IF req = << >> THEN TRUE
    ELSE IF params = << >> THEN FALSE
    ELSE IF Head(params) = Head(req) THEN InOrderWithin(Tail(req), Tail(params))
    ELSE InOrderWithin(req, Tail(params))

\* std::regex_search(line, message_constructor_regex)
message_constructor_regex(line) ==
    /\ line.fn = "mojo::Message::Message"
    /\ InOrderWithin(RequiredParams, line.params)

\* What "call_stack[0]" can yield on an empty vector: the process dies, or
\* the bytes read pass for a string that the regex matches or does not.
ManualEmptyReads == { "crash", "garbage", "garbage_match" }

\* The result of StepIntoMessageAndSetFlag: the commands it issued, whether
\* it set the flag, resumed the target, died.
ManualResult(calls, done, crashed) ==
    [calls |-> calls, flagged |-> done, resumed |-> done, crashed |-> crashed]

RECURSIVE ManualLoop(_, _, _, _)
\* "while (steps < 5)" and what follows it: views[k] is the top line of the
\* k-th stack query.
ManualLoop(views, steps, calls, ub) ==
    IF steps >= 5 THEN ManualResult(calls, FALSE, FALSE)
    ELSE IF views[steps + 1] = KpNone /\ ub = "crash"
    THEN ManualResult(Append(calls, "kp"), FALSE, TRUE)
    ELSE IF \/ views[steps + 1] # KpNone /\ message_constructor_regex(views[steps + 1])
            \/ views[steps + 1] = KpNone /\ ub = "garbage_match"
    THEN ManualResult(calls \o << "kp", "step_over", "dx flags", "go" >>, TRUE, FALSE)
    ELSE ManualLoop(views, steps + 1, calls \o << "kp", "step_into" >>, ub)

\* StepIntoMessageAndSetFlag with the file name GetCurrentSourceInfo gave.
StepIntoMessageAndSetFlag(file_name, views, ub) ==
    IF ~EndsWith(file_name, MojomCcSuffix)
    THEN ManualResult(<< >>, FALSE, FALSE)
    ELSE ManualLoop(views, 0, << "!StepIntoFunction message" >>, ub)

\* StepThroughMojoInternal(client, args) with the target suspended.
StepThroughMojo(file_name, views, ub) ==
    /\ status = "break"
    /\ frames = << >>
    /\ \E r \in { IF g_modules = << >> \/ g_hook_instances = << >>
                  THEN ManualResult(<< >>, FALSE, FALSE)
                  ELSE StepIntoMessageAndSetFlag(file_name, views, ub) } :
          /\ hostlog' = [op |-> "StepThroughMojo", proc |-> cur.proc,
                         module |-> << >>,
                         outcome |-> IF g_modules = << >> \/ g_hook_instances = << >>
                                     THEN "E_FAIL"
                                     ELSE IF r.crashed THEN "crash" ELSE "S_OK",
                         calls |-> r.calls, file |-> file_name, views |-> views,
                         flagged |-> r.flagged, resumed |-> r.resumed]
          /\ status' = IF r.crashed THEN "terminated"
                       ELSE IF r.resumed THEN "go" ELSE "break"
    /\ UNCHANGED << g_modules, g_event_callbacks, g_hook_instances, mem, alloc,
                    cur, frames, cpu, binary, nfaults, site >>

\* The top lines of five stack queries: k - 1 times pre, then last.
ManualViews ==
    { [i \in 1..5 |-> IF i < k THEN pre ELSE last] :
        k \in 1..5, pre \in { KpProxy, KpMove },
        last \in { KpFull, KpMore, KpFewer, KpMove, KpProxy, KpNone } }

EnableManual ==
    /\ EnableStepThroughMojo(<< >>, TRUE)
    /\ UNCHANGED breakvars

LoadManual ==
    /\ \E e \in Procs : LoadModule(e, << "chrome" >>, NoFaults)
    /\ UNCHANGED breakvars

Manual ==
    /\ \E f \in { FileCc, FileMojomH, FileMojomCc }, v \in ManualViews,
          ub \in ManualEmptyReads :
           StepThroughMojo(f, v, ub)
    /\ UNCHANGED breakvars

NextManual == EnableManual \/ LoadManual \/ Manual

SpecManual == Init /\ [][NextManual]_vars

---------------------------------------------------------------------------
(* The break-commands extension: commands run at every break.             *)

\* Longest break-command list the model builds.
MaxCommands == 3

\* Arguments given to the commands: none, the help request, two debugger
\* commands, indices, and text that is not a number.
ArgNone == << >>
ArgHelp == << "?" >>
BreakArgs == { << "k" >>, << "r", "eax" >> }
Digits == << "0", "1", "2", "3", "4", "5" >>
IndexArgs == { << Digits[n] >> : n \in 1..(MaxCommands + 1) }

\* std::stoul on the first argument: the number it denotes, -1 where it
\* throws.
stoul(str) ==
    IF \E n \in 1..Len(Digits) : Digits[n] = str
    THEN (CHOOSE n \in 1..Len(Digits) : Digits[n] = str) - 1
    ELSE -1
ArgJunk == << "x" >>

PopBack(s) == SubSeq(s, 1, Len(s) - 1)

Erase(s, i) == SubSeq(s, 1, i - 1) \o SubSeq(s, i + 1, Len(s))

BreakResult(commands, handler, registered, set, ret) ==
    [commands |-> commands, handler |-> handler, registered |-> registered,
     set |-> set, ret |-> ret]

\* AddBreakCommandInternal without the pop_back of its failure path.
AddBreakCommandInternal_NoRollback(commands, handler, registered, args, hr) ==
    IF args = ArgNone \/ args = ArgHelp
    THEN BreakResult(commands, handler, registered, "none", "S_OK")
    ELSE IF handler
    THEN BreakResult(Append(commands, args), handler, registered, "none", "S_OK")
    ELSE IF hr # "S_OK"
    THEN BreakResult(Append(commands, args), FALSE, registered, hr, hr)
    ELSE BreakResult(Append(commands, args), TRUE, TRUE, hr, "S_OK")

\* AddBreakCommandInternal: the help text for empty arguments or "?";
\* otherwise push_back(args) and, if there is no handler yet, create one
\* and hand it to SetEventCallbacks, which answers hr; on failure release
\* the handler, pop_back and return hr. set is what SetEventCallbacks
\* answered, "none" if it was not called.
AddBreakCommandInternal(commands, handler, registered, args, hr) ==
    IF args = ArgNone \/ args = ArgHelp
    THEN BreakResult(commands, handler, registered, "none", "S_OK")
    ELSE IF handler
    THEN BreakResult(Append(commands, args), handler, registered, "none", "S_OK")
    ELSE IF hr # "S_OK"
    THEN BreakResult(PopBack(Append(commands, args)), FALSE, registered, hr, hr)
    ELSE BreakResult(Append(commands, args), TRUE, TRUE, hr, "S_OK")

\* RemoveBreakCommandsInternal: help for "?", clear for no arguments,
\* erase at the index for a number in range, E_INVALIDARG otherwise
\* (std::stoul throws on text that is not a number).
RemoveBreakCommandsInternal(commands, args) ==
    IF args = ArgHelp THEN [commands |-> commands, ret |-> "S_OK"]
    ELSE IF args = ArgNone THEN [commands |-> << >>, ret |-> "S_OK"]
    ELSE IF stoul(args[1]) < 0 \/ stoul(args[1]) >= Len(commands)
    THEN [commands |-> commands, ret |-> "E_INVALIDARG"]
    ELSE [commands |-> Erase(commands, stoul(args[1]) + 1), ret |-> "S_OK"]

BreakLog(op, args, before, set, ret, calls) ==
    [op |-> op, proc |-> 0, module |-> args, outcome |-> ret, calls |-> calls,
     before |-> before, set |-> set]

AddBreakCommand(args, hr) ==
    /\ Len(g_commands) < MaxCommands
    /\ \E r \in { AddBreakCommandInternal(g_commands, g_break_event_handler,
                                          client_callbacks, args, hr) } :
          /\ g_commands' = r.commands
          /\ g_break_event_handler' = r.handler
          /\ client_callbacks' = r.registered
          /\ hostlog' = BreakLog("AddBreakCommand", args, g_commands, r.set,
                                 r.ret, << >>)
    /\ UNCHANGED << g_modules, g_event_callbacks, g_hook_instances, mem, alloc,
                    cur, status, frames, cpu, binary, nfaults, site >>

RemoveBreakCommands(args) ==
    /\ \E r \in { RemoveBreakCommandsInternal(g_commands, args) } :
          /\ g_commands' = r.commands
          /\ hostlog' = BreakLog("RemoveBreakCommands", args, g_commands,
                                 "none", r.ret, << >>)
    /\ UNCHANGED << g_modules, g_event_callbacks, g_hook_instances, mem, alloc,
                    cur, status, frames, cpu, binary, nfaults, site,
                    g_break_event_handler, client_callbacks >>

\* BreakEventHandler::ChangeEngineState on a change of the execution
\* status to break: every command of the list is executed, in order.
BreakEventHandler_ChangeEngineState ==
    /\ client_callbacks
    /\ hostlog' = BreakLog("ChangeEngineState", << >>, g_commands, "none",
                           "S_OK", g_commands)
    /\ UNCHANGED << g_modules, g_event_callbacks, g_hook_instances, mem, alloc,
                    cur, status, frames, cpu, binary, nfaults, site,
                    g_commands, g_break_event_handler, client_callbacks >>

\* DebugExtensionUninitializeInternal of the break-commands extension.
BreakCommandsUninitialize ==
    /\ g_break_event_handler' = FALSE
    /\ client_callbacks' = IF g_break_event_handler THEN FALSE
                           ELSE client_callbacks
    /\ hostlog' = BreakLog("DebugExtensionUninitialize", << >>, g_commands,
                           "none", "S_OK", << >>)
    /\ UNCHANGED << g_modules, g_event_callbacks, g_hook_instances, mem, alloc,
                    cur, status, frames, cpu, binary, nfaults, site,
                    g_commands >>

AddCommand ==
    \E a \in { ArgNone, ArgHelp } \cup BreakArgs, hr \in { "S_OK", "E_FAIL" } :
        AddBreakCommand(a, hr)

RemoveCommands ==
    \E a \in { ArgNone, ArgHelp, ArgJunk } \cup IndexArgs :
        RemoveBreakCommands(a)

NextBreak ==
    \/ AddCommand
    \/ RemoveCommands
    \/ BreakEventHandler_ChangeEngineState
    \/ BreakCommandsUninitialize

SpecBreak == Init /\ [][NextBreak]_vars

\* SetEventCallbacks was called by the last AddBreakCommand and failed.
RegistrationFailed ==
    /\ hostlog.op = "AddBreakCommand"
    /\ hostlog.set \notin { "none", "S_OK" }

\* C25: when SetEventCallbacks fails during AddBreakCommand, the command
\* returns the failure code, the break-command list is as it was before
\* the call, and no break event handler is left: neither in
\* g_break_event_handler nor with the client.
C25_FailedRegistrationRollsBack ==
    RegistrationFailed =>
        /\ hostlog.outcome = hostlog.set
        /\ g_commands = hostlog.before
        /\ ~g_break_event_handler
        /\ ~client_callbacks

\* A failed registration with commands already in the list.
C25_Witness ==
    /\ RegistrationFailed
    /\ hostlog.outcome = "E_FAIL"
    /\ g_commands # << >>
    /\ g_commands = hostlog.before
---------------------------------------------------------------------------
(* The order of ApplyHook's writes (specification Spec).                   *)

\* The k-th host call of the latest handler wrote bytes at the entry of a
\* target function.
EntryWritten(k) ==
    /\ hostlog.calls[k].op = "write"
    /\ hostlog.calls[k].a \notin ScratchAddrs \cup { 0 }
    /\ hostlog.calls[k].n > 0

\* Before the k-th host call the scratch memory was allocated and the
\* whole trampoline written to it.
TrampolineReady(k) ==
    /\ \E i \in 1..(k - 1) :
          hostlog.calls[i].op = "dvalloc" /\ hostlog.calls[i].ok
    /\ \E j \in 1..(k - 1) :
          /\ hostlog.calls[j].op = "write"
          /\ hostlog.calls[j].a \in ScratchAddrs
          /\ hostlog.calls[j].ok
          /\ hostlog.calls[j].n = hostlog.calls[j].req

\* C26: in every ApplyHook, of either variant, bytes of the target
\* function's entry are overwritten only after the scratch memory was
\* allocated and the complete trampoline written to it.
C26_EntryPatchedAfterTrampoline ==
    hostlog.op = "LoadModule" =>
        \A k \in 1..Len(hostlog.calls) : EntryWritten(k) => TrampolineReady(k)
---------------------------------------------------------------------------
(* The thread whose stack the Scanning queries read (specification         *)
(* SpecStep).                                                              *)

\* The wait of the top activation returns and the activation makes a
\* call-stack query before its next wait.
StackQueried ==
    /\ frames # << >>
    /\ Len(frames') = Len(frames)
    /\ frames'[Len(frames')].seq = Top.seq
    /\ frames'[Len(frames')].scans > Top.scans

\* C27: every call-stack query of an interception is made with the
\* engine's focus on the process and thread that hit the breakpoint:
\* after each step the focus has been re-anchored there before the query,
\* or no query is made.
C27_QueriesReadHitThread ==
    [][ (StackQueried /\ Top.seq = 1) => cur' = Top.hit ]_vars
---------------------------------------------------------------------------
(* The waits of the stepping sequence (specification SpecStep).            *)

\* The top activation has issued a step command and, after the wait that
\* followed it, a further call-stack query or step command.
IssuedAfterStep == frames # << >> /\ (Top.exits > 1 \/ Top.scans > 0)

\* C28: after every step command of the state machine the next call-stack
\* query or step command is issued only when the target is suspended
\* again, never while it is still running, whatever the wait returned.
C28_IssuedOnlyWhenSuspended ==
    IssuedAfterStep => Top.issued_in = "break"
---------------------------------------------------------------------------
(* The way out of the trampoline (specification SpecCpu).                  *)

\* One "step over" of the debugger on the thread c: off the breakpoint
\* instruction when the thread stands at it, one instruction otherwise.
\* The trampoline holds no call.
StepOver(c) ==
    IF c.st = "int3" THEN [c EXCEPT !.st = "run", !.rip = c.rip + 1]
    ELSE IF c.st # "run" THEN c
    ELSE IF ~IsMapped(mem[c.proc], alloc[c.proc], c.rip, 1) THEN Fault(c)
    ELSE Exec(c, mem[c.proc], alloc[c.proc],
              PeekBytes(mem[c.proc], c.rip, FetchLen))

RECURSIVE StepOvers(_, _)
\* n step-overs in a row.
StepOvers(c, n) == IF n = 0 THEN c ELSE StepOvers(StepOver(c), n - 1)

\* The thread stands at the breakpoint of the k-th instance's trampoline.
AtBreakpoint(k) ==
    /\ cpu.st = "int3"
    /\ cpu.proc = 0
    /\ cpu.rip = g_hook_instances[k].int3_address

\* C29: from the breakpoint of a variant's trampoline exactly
\* NumStepsToHookExit() step-overs (21 for the first variant, 17 for the
\* second) bring the instruction pointer to the continuation address, and
\* no smaller number does.
C29_StepsToContinuation ==
    \A k \in 1..Len(g_hook_instances) :
        AtBreakpoint(k) =>
            /\ NumStepsToHookExit(g_hook_instances[k].hook_definition)
                  = ExitStepsOf(g_hook_instances[k])
            /\ StepOvers(cpu, ExitStepsOf(g_hook_instances[k])).rip
                  = g_hook_instances[k].jump_target
            /\ \A n \in 0..(NumStepsToHookExit(
                               g_hook_instances[k].hook_definition) - 1) :
                  StepOvers(cpu, n).rip # g_hook_instances[k].jump_target

\* A thread stands at the breakpoint of the first variant's trampoline,
\* twenty-one step-overs away from the continuation address.
C29_Witness ==
    \E k \in 1..Len(g_hook_instances) :
        /\ AtBreakpoint(k)
        /\ g_hook_instances[k].hook_definition = "HookReleaseNoConfigChanges"
        /\ StepOvers(cpu, 21).rip = g_hook_instances[k].jump_target
        /\ StepOvers(cpu, 21).st = "in_function"
---------------------------------------------------------------------------
(* The trampoline against the entry code it replaces (specification        *)
(* SpecCpu).                                                               *)

\* Process 0's memory with the entry of the target function as the build
\* has it, before the patch.
UnpatchedMemory ==
    PokeBytes(mem[0], TargetAddressOf(<< "chrome" >>), EntryImage(binary))

RECURSIVE RunTo(_, _, _, _)
\* The thread c executing in memory m until it stands at address stop, for
\* at most n instructions.
RunTo(c, m, stop, n) ==
    IF c.rip = stop \/ c.st # "run" \/ n = 0 THEN c
    ELSE RunTo(Exec(c, m, alloc[0], PeekBytes(m, c.rip, FetchLen)), m, stop,
               n - 1)

\* The thread after the original_code_size_ entry bytes of the unpatched
\* function, entered with the registers regs.
OriginalEntry(regs) ==
    RunTo([st |-> "run", proc |-> 0, rip |-> TargetAddressOf(<< "chrome" >>),
           regs |-> regs, zf |-> FALSE, stack |-> << >>, entry |-> regs],
          UnpatchedMemory,
          TargetAddressOf(<< "chrome" >>) + original_code_size_,
          original_code_size_)

\* The stack pointer, the argument registers and the callee-saved registers.
PreservedRegs ==
    { "rsp", "rcx", "rdx", "r8", "r9",
      "rbx", "rbp", "rsi", "rdi", "r12", "r13", "r14", "r15" }

\* The registers the entry bytes of the build define besides rsp: rax
\* (the security cookie xor rsp) in the build of the second variant.
DefinedByEntry ==
    IF binary = original_code_ THEN {} ELSE { "rax" }

\* The thread has left the k-th instance's trampoline for the
\* continuation address.
AtContinuation(k) ==
    /\ cpu.st = "in_function"
    /\ cpu.proc = 0
    /\ cpu.rip = g_hook_instances[k].jump_target

\* C30: when control reaches the continuation address, on the break and
\* on the no-break path of either variant, the stack pointer, the argument
\* registers, the callee-saved registers and every register the original
\* entry bytes define hold what executing the original entry bytes from
\* the same entry state gives.
C30_SameAsOriginalEntry ==
    \A k \in 1..Len(g_hook_instances) :
        AtContinuation(k) =>
            /\ OriginalEntry(cpu.entry).rip = cpu.rip
            /\ OriginalEntry(cpu.entry).st = "run"
            /\ \A r \in PreservedRegs \cup DefinedByEntry :
                  cpu.regs[r] = OriginalEntry(cpu.entry).regs[r]

\* A thread with a flagged message has passed the breakpoint of the second
\* variant's trampoline and reached the continuation address with rax the
\* security cookie xor rsp.
C30_Witness ==
    \E k \in 1..Len(g_hook_instances) :
        /\ AtContinuation(k)
        /\ g_hook_instances[k].hook_definition = "HookReleaseWithConfigNoOptimize"
        /\ FlaggedMessage([cpu EXCEPT !.regs = cpu.entry], mem[0])
        /\ cpu.regs["rax"] = Xor8(LE8(43690), cpu.regs["rsp"])
        /\ cpu.regs["rsp"] # cpu.entry["rsp"]
---------------------------------------------------------------------------
(* The relocation slots of the trampoline (specification SpecReloc).       *)

\* Entries of builds the second variant matches whose displacement of the
\* security cookie is negative: -16, and -2^31, which takes the sum below
\* zero.
ShapeNear ==
    << 72, 129, 236, 120, 7, 0, 0, 72, 139, 5, 240, 255, 255, 255, 72, 49, 224 >>
ShapeFar ==
    << 72, 129, 236, 120, 7, 0, 0, 72, 139, 5, 0, 0, 0, 128, 72, 49, 224 >>

RelocShapes == CpuShapes \cup { ShapeNear, ShapeFar }

\* Host behaviours of the load events of this specification.
RelocChoices ==
    { NoFaults, [F |-> { << "tramp", "short" >> }],
      [F |-> { << "patch", "fail" >> }], [F |-> { << "alloc", "fail" >> }] }

EnableReloc ==
    /\ \E a \in EnableArgs : EnableStepThroughMojo(a, TRUE)
    /\ UNCHANGED breakvars

LoadReloc ==
    /\ \E e \in Procs, n \in LoadNames, H \in RelocChoices : LoadModule(e, n, H)
    /\ UNCHANGED breakvars

NextReloc == EnableReloc \/ LoadReloc

\* Nothing is watched and nothing loaded; the build is one of RelocShapes.
InitReloc ==
    /\ g_modules = << >>
    /\ g_event_callbacks = FALSE
    /\ g_hook_instances = << >>
    /\ mem = [e \in Procs |-> << >>]
    /\ alloc = [e \in Procs |-> {}]
    /\ cur = [proc |-> 0, thread |-> 0]
    /\ status = "break"
    /\ frames = << >>
    /\ cpu = IdleCpu
    /\ hostlog = NoLog
    /\ binary \in RelocShapes
    /\ nfaults = 0
    /\ site = NoSite
    /\ g_commands = << >>
    /\ g_break_event_handler = FALSE
    /\ client_callbacks = FALSE

SpecReloc == InitReloc /\ [][NextReloc]_vars

\* The value of four little-endian bytes read as a signed 32-bit number.
Disp32(b4) ==
    b4[1] + 256 * b4[2] + 65536 * b4[3]
      + 16777216 * (IF b4[4] >= 128 THEN b4[4] - 256 ELSE b4[4])

\* The variant that matches the build.
VariantOfBuild ==
    IF binary = original_code_ THEN "HookReleaseNoConfigChanges"
    ELSE "HookReleaseWithConfigNoOptimize"

\* The template of a variant and the offset (from 0) of the immediate of
\* its final jump.
TemplateOf(def) ==
    IF def = "HookReleaseNoConfigChanges" THEN hook_code_A ELSE hook_code_B

JumpSlotOffset(def) ==
    IF def = "HookReleaseNoConfigChanges"
    THEN Len(hook_code_A) - hook_code_jump_target_offset_A
    ELSE Len(hook_code_B) - hook_code_jump_target_offset_B

\* Offset (from 0) of the immediate of "mov rax, imm64" in the second
\* variant's template.
CookieSlotOffset == 51

\* The positions (from 1) of the relocation slots of a variant.
RelocSlots(def) ==
    ((JumpSlotOffset(def) + 1)..(JumpSlotOffset(def) + 8))
      \cup (IF def = "HookReleaseNoConfigChanges" THEN {}
            ELSE ((CookieSlotOffset + 1)..(CookieSlotOffset + 8))
                   \cup ((OriginalSlotOffset + 1)..(OriginalSlotOffset + 7)))

\* The j-th host call of the latest load handler wrote a whole trampoline.
TrampolineWritten(j) ==
    /\ hostlog.op = "LoadModule"
    /\ hostlog.calls[j].op = "write"
    /\ hostlog.calls[j].a \in ScratchAddrs
    /\ hostlog.calls[j].ok
    /\ hostlog.calls[j].n = hostlog.calls[j].req

\* The address of the target function of the latest load handler.
TargetOfLoad == TargetAddressOf(RemoveFileExtension(hostlog.module))

\* C31: the trampoline ApplyHook has written equals the variant's template
\* everywhere but at its relocation slots; the immediate of the final jump
\* holds the continuation address (target + 17), little-endian; in the
\* second variant the immediate at 0x33 holds target + 14 + the
\* sign-extended displacement of entry bytes 10-13, modulo 2^64, and
\* bytes 0x2A-0x30 hold the first seven entry bytes.
C31_TemplateButSlots ==
    \A j \in 1..Len(hostlog.calls) :
        TrampolineWritten(j) =>
            \E t \in { BytesAt(hostlog.proc, hostlog.calls[j].a,
                               hostlog.calls[j].req) } :
                /\ Len(t) = Len(TemplateOf(VariantOfBuild))
                /\ \A i \in (1..Len(t)) \ RelocSlots(VariantOfBuild) :
                      t[i] = TemplateOf(VariantOfBuild)[i]
                /\ SubSeq(t, JumpSlotOffset(VariantOfBuild) + 1,
                          JumpSlotOffset(VariantOfBuild) + 8)
                      = LE8(TargetOfLoad + 17)
                /\ VariantOfBuild = "HookReleaseWithConfigNoOptimize" =>
                      /\ SubSeq(t, CookieSlotOffset + 1, CookieSlotOffset + 8)
                            = LE8(TargetOfLoad + 14
                                    + Disp32(SubSeq(binary, 11, 14)))
                      /\ SubSeq(t, OriginalSlotOffset + 1, OriginalSlotOffset + 7)
                            = SubSeq(binary, 1, 7)

\* A trampoline of the second variant has been written for the build
\* whose displacement takes the cookie's address below zero.
C31_Witness ==
    /\ binary = ShapeFar
    /\ \E j \in 1..Len(hostlog.calls) :
          /\ TrampolineWritten(j)
          /\ BytesAt(hostlog.proc, hostlog.calls[j].a + CookieSlotOffset + 4, 4)
                = << 255, 255, 255, 255 >>
---------------------------------------------------------------------------
(* The entry patch (specification Spec).                                   *)

\* The entry patch for a trampoline at hook_address as the claim words
\* it: FF 25 00 00 00 00, the address little-endian, three no-ops.
AbsoluteJump(hook_address) ==
    << 255, 37, 0, 0, 0, 0 >> \o LE8(hook_address) \o << 144, 144, 144 >>

\* The bytes of the latest load's function from its K-th byte on are the
\* build's.
BehindEntryUntouched ==
    \A i \in (original_code_size_ + 1)..EntryLen :
        PeekIn(mem[hostlog.proc], LastInstance.target_address + i - 1)
          = EntryImage(binary)[i]

\* The first K bytes of the latest load's function are the jump to its
\* trampoline and nothing behind them has been written.
EntryIsJump ==
    /\ BytesAt(hostlog.proc, LastInstance.target_address, original_code_size_)
          = AbsoluteJump(LastInstance.hook_address)
    /\ BehindEntryUntouched
    /\ \A c \in 1..Len(hostlog.calls) :
          (hostlog.calls[c].op = "write"
           /\ hostlog.calls[c].a = LastInstance.target_address)
          => hostlog.calls[c].req = original_code_size_

\* C32: after an ApplyHook that returned true the first K = 17 bytes of
\* the target function are FF 25 00 00 00 00, the trampoline's address in
\* little-endian order and no-ops up to K, and exactly K bytes of the
\* function have been written.
C32_EntryIsJump == JustInstalled => EntryIsJump
---------------------------------------------------------------------------
(* Invariants of the registry (specification Spec).                        *)

\* The engine id of the process with system id process_id.
EngineIdOf(process_id) == CHOOSE e \in Procs : ProcessSystemId(e) = process_id

\* The breakpoint address of inst lies inside its trampoline's allocation
\* and the byte there is int3.
BreakpointInTrampoline(inst) ==
    /\ inst.hook_address <= inst.int3_address
    /\ inst.int3_address < inst.hook_address + inst.hook_allocated_memory_size
    /\ PeekIn(mem[EngineIdOf(inst.process_id)], inst.int3_address) = 204

\* C33: every registered HookInstance has trampoline address <= breakpoint
\* address < trampoline address + allocated size, and the trampoline holds
\* the breakpoint instruction 0xCC at the breakpoint address.
C33_BreakpointInTrampoline ==
    \A k \in 1..Len(g_hook_instances) :
        BreakpointInTrampoline(g_hook_instances[k])
\* The entry patch of inst covers the consumed bytes and no other: the
\* bytes of the function before the continuation address are the patch,
\* those from the continuation address on are the build's.
PatchCoversConsumed(inst) ==
    /\ \A i \in 1..original_code_size_ :
          PeekIn(mem[EngineIdOf(inst.process_id)], inst.target_address + i - 1)
            = GetPatchBytes(inst.hook_address, original_code_size_)[i]
    /\ \A i \in (original_code_size_ + 1)..EntryLen :
          PeekIn(mem[EngineIdOf(inst.process_id)], inst.target_address + i - 1)
            = EntryImage(binary)[i]

\* C34: every registered HookInstance has jump_target = target_address +
\* 17, the count of consumed entry bytes, and its entry patch overwrites
\* exactly those bytes: the continuation address is the first unmodified
\* byte of the function.
C34_ContinuationBehindPatch ==
    \A k \in 1..Len(g_hook_instances) :
        /\ g_hook_instances[k].jump_target
              = g_hook_instances[k].target_address + 17
        /\ PatchCoversConsumed(g_hook_instances[k])
---------------------------------------------------------------------------
(* Sequences per notification (specification SpecNest).                    *)

\* C35: a suspend notification starts at most one exit-and-Scanning
\* sequence, whatever the registry holds: no activation of the handler
\* runs a sequence for a second element of the registry.
C35_OneSequencePerNotification ==
    \A a \in 1..Len(frames) : frames[a].seq <= 1
---------------------------------------------------------------------------
(* The process of a breakpoint hit (specification SpecStep).               *)

\* C36: a stepping sequence is started only for a HookInstance of the
\* process that is current at the suspend notification: a stop of another
\* process at an equal instruction address starts none.
C36_OnlyForCurrentProcess ==
    \A a \in 1..Len(frames) :
        frames[a].seq = 1 =>
            g_hook_instances[frames[a].k].process_id
              = ProcessSystemId(frames[a].hit.proc)
---------------------------------------------------------------------------
(* Scanning without an anchor (specification SpecStep).                    *)

\* None of the frames the stack query returned is an anchor; so it is
\* when the query returned no frame.
NoAnchorAmong(call_stack) ==
    \A j \in 1..Len(call_stack) : ~IsAnchorSymbol(call_stack[j])

\* C37: a Scanning iteration whose stack query returned no frame, or
\* frames none of which is an anchor, reads no top-of-stack symbol, issues
\* no step command and ends the sequence as Aborted.
C37_NoAnchorAborts ==
    (frames # << >> /\ Top.scans > 0 /\ NoAnchorAmong(Top.call_stack)) =>
        /\ Top.cmd = "none"
        /\ Top.result = "Aborted"
---------------------------------------------------------------------------
(* A failed registration of the event callbacks (specification Spec).      *)

\* C38: when SetEventCallbacks fails during EnableStepThroughMojo the
\* command returns the failure code and leaves the watched modules as
\* they were before the call.
C38_FailedEnableKeepsModules ==
    [][ (/\ hostlog'.op = "EnableStepThroughMojo"
         /\ hostlog'.outcome = "failed")
        => g_modules' = g_modules ]_vars
---------------------------------------------------------------------------
(* The re-selection of a drifted focus (specification SpecGuard).          *)

\* C39: when the focus has drifted, RestoreIfChanged re-selects the
\* process and the thread with the engine ids that belong to the captured
\* system ids, so that, the original process and thread still existing
\* and the ids being readable, the focus is back on them when the call
\* returns and the call returns true.
C39_DriftIsUndone ==
    (/\ Restored(hostlog)
     /\ hostlog.outcome = "ok"
     /\ ~SameIdentity(TheGuard, hostlog.found))
        => /\ SameIdentity(TheGuard, hostlog.left)
           /\ hostlog.ret
=============================================================================
